---- MODULE Spec2Model ----
(***************************************************************************)
(* Conversational-state engine of Project-OVERLAY (go/brain.go, driven by *)
(* Game.Update in go/main.go).                                             *)
(*                                                                         *)
(* Numbers.  The Go code computes in float64; the model computes in exact  *)
(* fixed point.                                                            *)
(*   - Time: one clock unit is 1/Sec second.  A time.Time field is stored  *)
(*     as its age: the number of clock units between the instant it holds  *)
(*     and the present, so time.Now() is age 0, now.Sub(t) is the age of t,*)
(*     and the passage of one clock unit adds 1 to every stored age.       *)
(*   - Tension: 1.0 is One units (One = 10 * Sec), which makes the decay   *)
(*     of 0.5 per second a whole number of units per clock unit.           *)
(*   - WordConfig numbers (Scale, ScaleX, VY, VYMult, Shake) are in tenths;*)
(*     Rot is in units of 10^-5 (3.14159 is 314159).                       *)
(* Text.  Go strings of Japanese text are sequences of characters; each    *)
(* character is written as an ASCII name (kana in lower case, kanji in     *)
(* upper case), and strings.Contains is substring search on the sequence.  *)
(***************************************************************************)
EXTENDS Integers, Sequences, FiniteSets, TLC

VARIABLES
    Tension,          \* Brain.Tension (fixed point, One = 1.0)
    LastUpdate,       \* Brain.LastUpdate (age in clock units)
    LastSpeechTime,   \* Brain.LastSpeechTime (age in clock units)
    SilenceStage,     \* Brain.SilenceStage
    ret,              \* the last call on the Brain and what it returned
    speech,           \* the utterances the recogniser can deliver in this run
    CurrentState,     \* Game.state.CurrentState
    spawned,          \* the configs Game.Update passed to spawnWordFromConfig in the last tick
    obs,              \* observer of the tick loop's silence emissions (see ObsInit)
    barrage,          \* Game.barrage
    currentSpeaker,   \* Game.currentSpeaker
    lastWordTime,     \* Game.lastWordTime (age in clock units, at most ZeroTime)
    micVolume,        \* Game.micVolume (hundredths)
    shakeAmount,      \* Game.shakeAmount (hundredths)
    flashIntensity,   \* Game.flashIntensity (hundredths)
    frameCount,       \* Game.frameCount
    bgColor,          \* Game.bgColor: <<R, G, B, A>>
    targetBgColor,    \* Game.targetBgColor: <<R, G, B, A>>
    TextChan,         \* SpeechEngine.TextChan: the texts queued, oldest first
    VolChan,          \* SpeechEngine.VolChan: the samples queued, oldest first
    cb,               \* the audio callback: where it is and the text it holds
    dice,             \* the values rand.Float64() can return in this run (hundredths)
    state,            \* network renderer: Game.state
    silenceStage,     \* network renderer: Game.silenceStage
    conn,             \* network renderer: Game.conn and the connection behind it
    mu,               \* network renderer: the holder of Game.mu
    pc,               \* network renderer: where each goroutine is
    seen              \* observer of spawns and physics ticks (see SeenInit)

brainVars == <<Tension, LastUpdate, LastSpeechTime, SilenceStage>>

gameVars == <<barrage, currentSpeaker, lastWordTime, micVolume, shakeAmount,
              flashIntensity, frameCount, bgColor, targetBgColor>>

chanVars == <<TextChan, VolChan, cb>>

netVars == <<state, silenceStage, conn, mu, pc>>

\* what the calls on the Brain alone leave as it is
renderer == <<gameVars, chanVars, netVars, dice, seen>>

vars == <<Tension, LastUpdate, LastSpeechTime, SilenceStage, ret, speech,
          CurrentState, spawned, obs, renderer>>

---------------------------------------------------------------------------
(* Bounds *)

Sec == 2            \* clock units (ticks of Game.Update) per second
MaxWords == 2       \* an utterance is at most this many vocabulary words
MaxTensionInt == 9  \* no utterance is offered that would lift Tension above this many 1.0
MaxAgeSec == 18     \* Spec: the clock stops once LastSpeechTime is this many seconds old
MaxIdleSec == 4     \* Spec: the clock stops once LastUpdate is this many seconds old
MaxLoops == 3       \* the observer counts stage-4 loop emissions up to this many

---------------------------------------------------------------------------
(* Fixed point *)

One == 10 * Sec
Seconds(n) == n * Sec

\* dt * 0.5 with dt = age seconds: (age / Sec) * 0.5 * One
Decay(age) == (age * One) \div (2 * Sec)

DangerInc_Seven == 7 * One    \* an increment of 7.0
DangerInc == 3 * One          \* b.Tension += 3.0
ActivityInc == One \div 5     \* b.Tension += 0.2
SplitAbove == 8 * One         \* b.Tension > 8.0
AlignedAbove == 2 * One       \* b.Tension > 2.0

---------------------------------------------------------------------------
(* Text *)

\* strings.Contains(text, w)
Contains(text, w) ==
    \E i \in 0..(Len(text) - Len(w)) : SubSeq(text, i + 1, i + Len(w)) = w

ContainsAny(text, ws) == \E k \in DOMAIN ws : Contains(text, ws[k])

DangerWords ==
    << <<"MU", "JUN">>,                     \* mujun
       <<"fu", "za", "ke", "ru", "na">>,    \* fuzakeruna
       <<"USO">>,                           \* uso
       <<"ZETSU", "TAI">>,                  \* zettai
       <<"CHIGA", "u">>,                    \* chigau
       <<"HEN">>,                           \* hen
       <<"o", "ka", "shi", "i">> >>         \* okashii

impactWords ==
    << <<"ZETSU", "TAI">>, <<"USO">>, <<"CHIGA", "u">>, <<"MU", "JUN">>,
       <<"HEN">>, <<"o", "ka", "shi", "i">> >>

conjunctions ==
    << <<"de", "mo">>,                      \* demo
       <<"shi", "ka", "shi">>,              \* shikashi
       <<"da", "ga">>,                      \* daga
       <<"GYAKU", "ni">>,                   \* gyakuni
       <<"to", "ha", "GEN", "e">>,          \* tohaie
       <<"ke", "do">>,                      \* kedo
       <<"HAN", "TAI", "ni">> >>            \* hantaini

hesitations ==
    << <<"e", "xtsu", "to">>,               \* etto
       <<"u", "-", "n">>,                   \* uun
       <<"a", "no">>,                       \* ano
       <<"TA", "BUN">>,                     \* tabun
       <<"ka", "na">>,                      \* kana
       <<"na", "n", "ka">>,                 \* nanka
       <<"e", "-">> >>                      \* ee

JOUGE == <<"UE", "SHITA">>          \* "up-down"
TENJOU == <<"AMA", "IDO">>          \* "ceiling"
SAKASAMA == <<"GYAKU", "sa", "ma">> \* "upside-down"
HANTEN == <<"HAN", "TEN">>          \* "invert"
GYAKU == <<"GYAKU">>                \* "reverse"
SAYUU == <<"SA", "YUU">>            \* "left-right"
KAGAMI == <<"KAGAMI">>              \* "mirror"
IRO == <<"IRO">>                    \* "colour"
KARAA == <<"kaK", "raK", "-">>      \* "colour" (katakana)
CHIGAU == <<"CHIGA", "u">>          \* "different"

DOTS == <<".", ".", ".">>           \* "..."
MA == <<"MA">>                      \* the "interval" glyph
CHINMOKU == <<"CHIN", "MOKU">>      \* "heavy silence"
SEIJAKU == <<"SEI", "JAKU">>        \* "deep silence"

---------------------------------------------------------------------------
(* WordConfig *)

NewWordConfig(text) ==
    [Text |-> text, Style |-> "normal", Scale |-> 10, ScaleX |-> 10, Rot |-> 0,
     Color |-> "white", VY |-> 0, VYMult |-> 10, Flash |-> FALSE, Shake |-> 0]

\* WordConfig{}: the zero value
ZeroWordConfig ==
    [Text |-> <<>>, Style |-> "", Scale |-> 0, ScaleX |-> 0, Rot |-> 0,
     Color |-> "", VY |-> 0, VYMult |-> 0, Flash |-> FALSE, Shake |-> 0]

\* AnalyzeSemantics with the inversion rules tried before the impact rule
AnalyzeSemantics_InversionFirst(text) ==
    LET cfg == NewWordConfig(text)
        inv == Contains(text, HANTEN) \/ Contains(text, GYAKU)
    IN  IF (Contains(text, JOUGE) \/ Contains(text, TENJOU) \/ Contains(text, SAKASAMA))
           /\ inv
        THEN [cfg EXCEPT !.Style = "invert_v", !.Rot = 314159, !.VYMult = -10,
                         !.Color = "cyan"]
        ELSE IF (Contains(text, SAYUU) \/ Contains(text, KAGAMI)) /\ inv
        THEN [cfg EXCEPT !.Style = "invert_h", !.ScaleX = -10, !.Color = "cyan"]
        ELSE IF (Contains(text, IRO) \/ Contains(text, KARAA))
                /\ (Contains(text, HANTEN) \/ Contains(text, CHIGAU))
        THEN [cfg EXCEPT !.Style = "invert_c", !.Color = "cyan"]
        ELSE IF ContainsAny(text, impactWords)
        THEN [cfg EXCEPT !.Style = "impact", !.Flash = TRUE, !.Shake = 200,
                         !.Color = "red", !.Scale = 25]
        ELSE IF ContainsAny(text, conjunctions)
        THEN [cfg EXCEPT !.Style = "conjunction", !.ScaleX = -10, !.Rot = 314159,
                         !.Color = "yellow"]
        ELSE IF ContainsAny(text, hesitations)
        THEN [cfg EXCEPT !.Style = "hesitation", !.Color = "grey"]
        ELSE cfg

AnalyzeSemantics(text) ==
    LET cfg == NewWordConfig(text)
        inv == Contains(text, HANTEN) \/ Contains(text, GYAKU)
    IN  IF ContainsAny(text, impactWords)
        THEN [cfg EXCEPT !.Style = "impact", !.Flash = TRUE, !.Shake = 200,
                         !.Color = "red", !.Scale = 25]
        ELSE IF (Contains(text, JOUGE) \/ Contains(text, TENJOU) \/ Contains(text, SAKASAMA))
                /\ inv
        THEN [cfg EXCEPT !.Style = "invert_v", !.Rot = 314159, !.VYMult = -10,
                         !.Color = "cyan"]
        ELSE IF (Contains(text, SAYUU) \/ Contains(text, KAGAMI)) /\ inv
        THEN [cfg EXCEPT !.Style = "invert_h", !.ScaleX = -10, !.Color = "cyan"]
        ELSE IF (Contains(text, IRO) \/ Contains(text, KARAA))
                /\ (Contains(text, HANTEN) \/ Contains(text, CHIGAU))
        THEN [cfg EXCEPT !.Style = "invert_c", !.Color = "cyan"]
        ELSE IF ContainsAny(text, conjunctions)
        THEN [cfg EXCEPT !.Style = "conjunction", !.ScaleX = -10, !.Rot = 314159,
                         !.Color = "yellow"]
        ELSE IF ContainsAny(text, hesitations)
        THEN [cfg EXCEPT !.Style = "hesitation", !.Color = "grey"]
        ELSE cfg

---------------------------------------------------------------------------
(* Brain: each method maps the Brain b before the call to the Brain after  *)
(* it (field b of the result) and the values the call returns.             *)

NewBrain == [Tension |-> 0, LastUpdate |-> 0, LastSpeechTime |-> 0, SilenceStage |-> 0]

\* Recalculate without the floor at 0
Recalculate_NoFloor(b) ==
    [b EXCEPT !.LastUpdate = 0, !.Tension = b.Tension - Decay(b.LastUpdate)]

\* Recalculate with the floor at 3.0
Recalculate_FloorAtThree(b) ==
    LET t == b.Tension - Decay(b.LastUpdate)
    IN  [b EXCEPT !.LastUpdate = 0, !.Tension = IF t < 3 * One THEN 3 * One ELSE t]

Recalculate(b) ==
    LET dt == b.LastUpdate
        t == b.Tension - Decay(dt)
    IN  [b EXCEPT !.LastUpdate = 0, !.Tension = IF t < 0 THEN 0 ELSE t]

\* the loop over DangerWords in ProcessText
hit(text) == ContainsAny(text, DangerWords)

\* ProcessText recalculating before it adds the increment
ProcessText_DecayFirst(b, text) ==
    LET b1 == Recalculate([b EXCEPT !.LastSpeechTime = 0, !.SilenceStage = 0])
    IN  [b |-> [b1 EXCEPT !.Tension = IF hit(text) THEN @ + DangerInc ELSE @ + ActivityInc],
         cfg |-> AnalyzeSemantics(text)]

\* ProcessText leaving LastSpeechTime as it was
ProcessText_KeepSpeechTime(b, text) ==
    LET b1 == [b EXCEPT !.SilenceStage = 0]
        b2 == [b1 EXCEPT !.Tension = IF hit(text) THEN @ + DangerInc ELSE @ + ActivityInc]
    IN  [b |-> Recalculate(b2), cfg |-> AnalyzeSemantics(text)]

ProcessText(b, text) ==
    LET b1 == [b EXCEPT !.LastSpeechTime = 0, !.SilenceStage = 0]
        b2 == [b1 EXCEPT !.Tension = IF hit(text) THEN @ + DangerInc ELSE @ + ActivityInc]
    IN  [b |-> Recalculate(b2), cfg |-> AnalyzeSemantics(text)]

\* the configs CheckSilence builds
silence_dots(scale) ==
    [NewWordConfig(DOTS) EXCEPT !.Style = "silence_dots", !.Color = "grey_alpha",
                                !.Scale = scale]
silence_ma ==
    [NewWordConfig(MA) EXCEPT !.Style = "silence_ma", !.Color = "blue_white", !.Scale = 10]
silence_heavy ==
    [NewWordConfig(CHINMOKU) EXCEPT !.Style = "silence_heavy", !.Color = "dark_grey",
                                    !.VY = 150, !.Scale = 15]
silence_abyss ==
    [NewWordConfig(SEIJAKU) EXCEPT !.Style = "silence_abyss", !.Color = "black",
                                   !.VY = -10, !.Scale = 20]

\* return cfg.Text, cfg, true with the Brain left as b
Emit(b, cfg) == [b |-> b, word |-> cfg.Text, cfg |-> cfg, ok |-> TRUE]

\* return "", WordConfig{}, false
NoEmit(b) == [b |-> b, word |-> <<>>, cfg |-> ZeroWordConfig, ok |-> FALSE]

\* CheckSilence whose loop goes back to the dots stage
CheckSilence_LoopToDots(b) ==
    LET duration == b.LastSpeechTime
    IN  IF duration > Seconds(2) /\ b.SilenceStage = 0
        THEN Emit([b EXCEPT !.SilenceStage = 1], silence_dots(8))
        ELSE IF duration > Seconds(5) /\ b.SilenceStage = 1
        THEN Emit([b EXCEPT !.SilenceStage = 2], silence_ma)
        ELSE IF duration > Seconds(8) /\ b.SilenceStage = 2
        THEN Emit([b EXCEPT !.SilenceStage = 3], silence_heavy)
        ELSE IF duration > Seconds(12) /\ b.SilenceStage = 3
        THEN Emit([b EXCEPT !.SilenceStage = 4], silence_abyss)
        ELSE IF duration > Seconds(17) /\ b.SilenceStage = 4
        THEN Emit([b EXCEPT !.LastSpeechTime = Seconds(2), !.SilenceStage = 1],
                  silence_dots(10))
        ELSE NoEmit(b)

\* CheckSilence comparing with >= where the code compares with >
CheckSilence_AtThreshold(b) ==
    LET duration == b.LastSpeechTime
    IN  IF duration >= Seconds(2) /\ b.SilenceStage = 0
        THEN Emit([b EXCEPT !.SilenceStage = 1], silence_dots(8))
        ELSE IF duration >= Seconds(5) /\ b.SilenceStage = 1
        THEN Emit([b EXCEPT !.SilenceStage = 2], silence_ma)
        ELSE IF duration >= Seconds(8) /\ b.SilenceStage = 2
        THEN Emit([b EXCEPT !.SilenceStage = 3], silence_heavy)
        ELSE IF duration >= Seconds(12) /\ b.SilenceStage = 3
        THEN Emit([b EXCEPT !.SilenceStage = 4], silence_abyss)
        ELSE IF duration >= Seconds(17) /\ b.SilenceStage = 4
        THEN Emit([b EXCEPT !.LastSpeechTime = Seconds(12)], silence_dots(10))
        ELSE NoEmit(b)

\* CheckSilence as a run of separate ifs: one call passes every stage that is due
CheckSilence_FallThrough(b) ==
    LET duration == b.LastSpeechTime
        s1 == IF duration > Seconds(2) /\ b.SilenceStage = 0 THEN 1 ELSE b.SilenceStage
        s2 == IF duration > Seconds(5) /\ s1 = 1 THEN 2 ELSE s1
        s3 == IF duration > Seconds(8) /\ s2 = 2 THEN 3 ELSE s2
        s4 == IF duration > Seconds(12) /\ s3 = 3 THEN 4 ELSE s3
    IN  IF s4 > b.SilenceStage
        THEN Emit([b EXCEPT !.SilenceStage = s4],
                  CASE s4 = 1 -> silence_dots(8) [] s4 = 2 -> silence_ma
                    [] s4 = 3 -> silence_heavy [] OTHER -> silence_abyss)
        ELSE IF duration > Seconds(17) /\ b.SilenceStage = 4
        THEN Emit([b EXCEPT !.LastSpeechTime = Seconds(12)], silence_dots(10))
        ELSE NoEmit(b)

\* CheckSilence whose loop sets LastSpeechTime back to the 2 s mark
CheckSilence_LoopBackTwo(b) ==
    LET duration == b.LastSpeechTime
    IN  IF duration > Seconds(2) /\ b.SilenceStage = 0
        THEN Emit([b EXCEPT !.SilenceStage = 1], silence_dots(8))
        ELSE IF duration > Seconds(5) /\ b.SilenceStage = 1
        THEN Emit([b EXCEPT !.SilenceStage = 2], silence_ma)
        ELSE IF duration > Seconds(8) /\ b.SilenceStage = 2
        THEN Emit([b EXCEPT !.SilenceStage = 3], silence_heavy)
        ELSE IF duration > Seconds(12) /\ b.SilenceStage = 3
        THEN Emit([b EXCEPT !.SilenceStage = 4], silence_abyss)
        ELSE IF duration > Seconds(17) /\ b.SilenceStage = 4
        THEN Emit([b EXCEPT !.LastSpeechTime = Seconds(2)], silence_dots(10))
        ELSE NoEmit(b)

\* CheckSilence whose third stage waits for 9 s
CheckSilence_HeavyAfterNine(b) ==
    LET duration == b.LastSpeechTime
    IN  IF duration > Seconds(2) /\ b.SilenceStage = 0
        THEN Emit([b EXCEPT !.SilenceStage = 1], silence_dots(8))
        ELSE IF duration > Seconds(5) /\ b.SilenceStage = 1
        THEN Emit([b EXCEPT !.SilenceStage = 2], silence_ma)
        ELSE IF duration > Seconds(9) /\ b.SilenceStage = 2
        THEN Emit([b EXCEPT !.SilenceStage = 3], silence_heavy)
        ELSE IF duration > Seconds(12) /\ b.SilenceStage = 3
        THEN Emit([b EXCEPT !.SilenceStage = 4], silence_abyss)
        ELSE IF duration > Seconds(17) /\ b.SilenceStage = 4
        THEN Emit([b EXCEPT !.LastSpeechTime = Seconds(12)], silence_dots(10))
        ELSE NoEmit(b)

CheckSilence(b) ==
    LET duration == b.LastSpeechTime
    IN  IF duration > Seconds(2) /\ b.SilenceStage = 0
        THEN Emit([b EXCEPT !.SilenceStage = 1], silence_dots(8))
        ELSE IF duration > Seconds(5) /\ b.SilenceStage = 1
        THEN Emit([b EXCEPT !.SilenceStage = 2], silence_ma)
        ELSE IF duration > Seconds(8) /\ b.SilenceStage = 2
        THEN Emit([b EXCEPT !.SilenceStage = 3], silence_heavy)
        ELSE IF duration > Seconds(12) /\ b.SilenceStage = 3
        THEN Emit([b EXCEPT !.SilenceStage = 4], silence_abyss)
        ELSE IF duration > Seconds(17) /\ b.SilenceStage = 4
        THEN Emit([b EXCEPT !.LastSpeechTime = Seconds(12)], silence_dots(10))
        ELSE NoEmit(b)

Reset(b) == [b EXCEPT !.Tension = 0, !.LastSpeechTime = 0, !.SilenceStage = 0]

\* the banding of GetState
StateOf(tension) ==
    IF tension > SplitAbove THEN "SPLIT"
    ELSE IF tension > AlignedAbove THEN "ALIGNED"
    ELSE "UNKNOWN"

\* GetState comparing with >= where the code compares with >
GetState_AtLeast(b) ==
    LET b1 == Recalculate(b)
    IN  [b |-> b1,
         state |-> IF b1.Tension >= SplitAbove THEN "SPLIT"
                   ELSE IF b1.Tension >= AlignedAbove THEN "ALIGNED"
                   ELSE "UNKNOWN"]

GetState(b) ==
    LET b1 == Recalculate(b)
    IN  [b |-> b1, state |-> StateOf(b1.Tension)]

---------------------------------------------------------------------------
(* Utterances *)

Vocabulary ==
    {DangerWords[k] : k \in DOMAIN DangerWords}
    \cup {impactWords[k] : k \in DOMAIN impactWords}
    \cup {conjunctions[k] : k \in DOMAIN conjunctions}
    \cup {hesitations[k] : k \in DOMAIN hesitations}
    \cup {JOUGE, TENJOU, SAKASAMA, HANTEN, GYAKU, SAYUU, KAGAMI, IRO, KARAA, CHIGAU}
    \cup {<<"KYOU">>, <<"ni">>}     \* "today", and a particle: words no rule lists

RECURSIVE TextsOf(_)
TextsOf(n) ==
    IF n = 0 THEN {<<>>}
    ELSE LET shorter == TextsOf(n - 1)
         IN  shorter \cup {t \o w : t \in shorter, w \in Vocabulary}

\* every utterance of at most MaxWords vocabulary words
Texts == TextsOf(MaxWords)

\* the utterances of the timed specifications: a plain word and a danger word
Utterances == {<<"KYOU">>, <<"USO">>}

---------------------------------------------------------------------------
(* The Brain of the state, and calls on it *)

Brain ==
    [Tension |-> Tension, LastUpdate |-> LastUpdate,
     LastSpeechTime |-> LastSpeechTime, SilenceStage |-> SilenceStage]

SetBrain(b) ==
    /\ Tension' = b.Tension
    /\ LastUpdate' = b.LastUpdate
    /\ LastSpeechTime' = b.LastSpeechTime
    /\ SilenceStage' = b.SilenceStage

\* every time stamp of the Brain is d clock units older
Aged(b, d) == [b EXCEPT !.LastUpdate = @ + d, !.LastSpeechTime = @ + d]

Ret(op) == [op |-> op, word |-> <<>>, cfg |-> ZeroWordConfig, ok |-> FALSE, state |-> ""]

MaxTension == MaxTensionInt * One

BrainInit ==
    /\ Tension = NewBrain.Tension
    /\ LastUpdate = NewBrain.LastUpdate
    /\ LastSpeechTime = NewBrain.LastSpeechTime
    /\ SilenceStage = NewBrain.SilenceStage
    /\ ret = Ret("NewBrain")

\* The observer of the tick loop:
\*   quiet      clock units since the last utterance (or the start), up to QuietCap
\*   sinceEmit  clock units since the last utterance or silence emission, up to
\*              QuietCap
\*   emitted    <<stage entered, quiet at that poll>> of every emission since the
\*              last utterance that advanced the stage
\*   loops      the stage-4 loop emissions since the last utterance, up to MaxLoops
\*   firstLoop  quiet at the first of them (0: none yet)
\*   gap        sinceEmit at the poll of the latest of them (0: none yet)
\*   said       whether the last tick consumed an utterance
\*   was        the state the tick before the last tick stored
ObsInit ==
    [quiet |-> 0, sinceEmit |-> 0, emitted |-> <<>>, loops |-> 0, firstLoop |-> 0,
     gap |-> 0, said |-> FALSE, was |-> ""]

\* the age that stands for the zero time.Time, and for every age beyond it
ZeroTime == Seconds(MaxAgeSec)

\* color.RGBA{}
ColZero == <<0, 0, 0, 0>>

\* State{}: the zero value of the network renderer's State
ZeroState == [CurrentState |-> "", SplitDegree |-> 0, Strength |-> 0, FlashWord |-> <<>>]

\* The observer of spawns and physics ticks:
\*   born   the barrage as it was when the observation began
\*   ticks  the physics ticks since then, up to TickCap
\*   call   the last spawn call: its name, the Game it found, its config, the
\*          BarrageWord literal it built (before the forced override) and the
\*          particle it appended
\*   twin   SpecPoll: the Brain of the second run, which hears the utterances
\*          of the first at the same times and is polled at other times
\*   says   SpecPoll: the utterances so far
\*   clock  SpecPoll: the clock units so far
SeenInit == [born |-> <<>>, ticks |-> 0, call |-> <<>>, twin |-> NewBrain, says |-> 0,
             clock |-> 0]

\* the audio callback between two calls
CallbackIdle == [pc |-> "idle", txt |-> <<>>]

\* the goroutines of the network renderer before main starts them
\*   tick     Game.Update: "idle" before g.mu.Lock(), "body" after it
\*   connect  the connect goroutine: "none", "dial", "retry" (the pause after a
\*            failed dial), "write" (the write loop), "close", "sleep"
\*   pause    the duration of the time.Sleep the connect goroutine last took
\*   readers  the live reader goroutines: the number c of the connection each
\*            reads, where it is ("read", "handle", "lock", "apply") and the
\*            message it is handling
PcInit == [tick |-> "idle", connect |-> "none", pause |-> 0, readers |-> {}]

\* No connection yet:
\*   ptr    g.conn: 0 for nil, else the number of the connection
\*   dials  the dials that succeeded so far
\*   live   the connections opened and not closed
\*   done   the connections whose done channel is closed
\*   rcvd   the messages read so far
ConnNil == [ptr |-> 0, dials |-> 0, live |-> {}, done |-> {}, rcvd |-> 0]

\* g.mu unlocked; holder is "tick" or "reader" when locked, c the reader's
\* connection
MuFree == [holder |-> "free", c |-> 0]

\* &Game{}: the zero value of every field, and no goroutine started
RendererInit ==
    /\ barrage = <<>>
    /\ currentSpeaker = 0
    /\ lastWordTime = ZeroTime
    /\ micVolume = 0
    /\ shakeAmount = 0
    /\ flashIntensity = 0
    /\ frameCount = 0
    /\ bgColor = ColZero
    /\ targetBgColor = ColZero
    /\ TextChan = <<>>
    /\ VolChan = <<>>
    /\ cb = CallbackIdle
    /\ dice = {0}
    /\ state = ZeroState
    /\ silenceStage = 0
    /\ conn = ConnNil
    /\ mu = MuFree
    /\ pc = PcInit
    /\ seen = SeenInit

GameInit ==
    /\ CurrentState = ""
    /\ spawned = <<>>
    /\ obs = ObsInit
    /\ RendererInit

\* one second passes between two calls
Advance ==
    /\ LastUpdate < Seconds(MaxIdleSec)
    /\ LastSpeechTime < Seconds(MaxAgeSec)
    /\ SetBrain(Aged(Brain, Seconds(1)))
    /\ UNCHANGED <<ret, speech, CurrentState, spawned, obs, renderer>>

ProcessTextOf(text) ==
    LET r == ProcessText(Brain, text)
    IN  /\ r.b.Tension <= MaxTension
        /\ SetBrain(r.b)
        /\ ret' = [Ret("ProcessText") EXCEPT !.cfg = r.cfg]
        /\ UNCHANGED <<speech, CurrentState, spawned, obs, renderer>>

ProcessTextCall == \E text \in speech : ProcessTextOf(text)

AnalyzeSemanticsCall ==
    \E text \in speech :
        /\ ret' = [Ret("AnalyzeSemantics") EXCEPT !.cfg = AnalyzeSemantics(text)]
        /\ UNCHANGED <<Tension, LastUpdate, LastSpeechTime, SilenceStage, speech,
                       CurrentState, spawned, obs, renderer>>

CheckSilenceCall ==
    LET r == CheckSilence(Brain)
    IN  /\ SetBrain(r.b)
        /\ ret' = [Ret("CheckSilence") EXCEPT !.word = r.word, !.cfg = r.cfg, !.ok = r.ok]
        /\ UNCHANGED <<speech, CurrentState, spawned, obs, renderer>>

ResetCall ==
    /\ SetBrain(Reset(Brain))
    /\ ret' = Ret("Reset")
    /\ UNCHANGED <<speech, CurrentState, spawned, obs, renderer>>

RecalculateCall ==
    /\ SetBrain(Recalculate(Brain))
    /\ ret' = Ret("Recalculate")
    /\ UNCHANGED <<speech, CurrentState, spawned, obs, renderer>>

GetStateCall ==
    LET r == GetState(Brain)
    IN  /\ SetBrain(r.b)
        /\ ret' = [Ret("GetState") EXCEPT !.state = r.state]
        /\ UNCHANGED <<speech, CurrentState, spawned, obs, renderer>>

\* The Brain's methods called in any order, at whole seconds of a clock that
\* never runs backwards.
Init == BrainInit /\ GameInit /\ speech = Utterances

Next ==
    \/ Advance
    \/ ProcessTextCall
    \/ CheckSilenceCall
    \/ ResetCall
    \/ RecalculateCall
    \/ GetStateCall

Spec == Init /\ [][Next]_vars

\* One utterance, any text of at most MaxWords words, given to a new Brain.
InitText == BrainInit /\ GameInit /\ \E text \in Texts : speech = {text}

NextText ==
    /\ ret.op = "NewBrain"
    /\ \/ ProcessTextCall
       \/ AnalyzeSemanticsCall

SpecText == InitText /\ [][NextText]_vars

---------------------------------------------------------------------------
(* Game.Update: one tick of the standalone renderer.  One clock unit has  *)
(* passed since the previous tick; the clock does not move within a tick. *)
(* Steps 2 to 4 of Update are the ones that call the Brain; spawned holds  *)
(* the configs they hand to spawnWordFromConfig, in order.  Step 1 (the    *)
(* volume sample) and step 5 (updatePhysics) read and write Game fields    *)
(* only, none of which the Brain reads.                                    *)

QuietCap == Seconds(MaxAgeSec)

Observe(o, said, before, c) ==
    LET quiet == IF said THEN 0 ELSE IF o.quiet < QuietCap THEN o.quiet + 1 ELSE o.quiet
        since == IF said THEN 0
                 ELSE IF o.sinceEmit < QuietCap THEN o.sinceEmit + 1 ELSE o.sinceEmit
        o1 == IF said THEN [ObsInit EXCEPT !.said = TRUE]
              ELSE [o EXCEPT !.quiet = quiet, !.sinceEmit = since, !.said = FALSE]
    IN  IF ~c.ok THEN o1
        ELSE IF c.b.SilenceStage > before.SilenceStage
        THEN [o1 EXCEPT !.sinceEmit = 0,
                        !.emitted = Append(@, <<c.b.SilenceStage, quiet>>)]
        ELSE [o1 EXCEPT !.sinceEmit = 0,
                        !.loops = IF @ < MaxLoops THEN @ + 1 ELSE @,
                        !.firstLoop = IF o1.loops = 0 THEN quiet ELSE @,
                        !.gap = since]

\* heard: what the select on speech.TextChan finds, <<>> or <<text>>
Update(heard) ==
    LET b0 == Aged(Brain, 1)
        said == heard # <<>>
        p == IF said THEN ProcessText(b0, heard[1])
             ELSE [b |-> b0, cfg |-> ZeroWordConfig]
        c == CheckSilence(p.b)
        g == GetState(c.b)
    IN  /\ p.b.Tension <= MaxTension
        /\ SetBrain(g.b)
        /\ CurrentState' = g.state
        /\ spawned' = (IF said THEN <<p.cfg>> ELSE <<>>) \o (IF c.ok THEN <<c.cfg>> ELSE <<>>)
        /\ obs' = [Observe(obs, said, p.b, c) EXCEPT !.was = CurrentState]
        /\ UNCHANGED <<ret, speech, renderer>>

Silent == Update(<<>>)

Heard == \E text \in speech : Update(<<text>>)

NextUpdate == Silent \/ Heard

SpecUpdate == Init /\ [][NextUpdate]_vars

\* ebiten calls Update on every tick for as long as the program runs
SpecUpdateFair == SpecUpdate /\ WF_vars(NextUpdate)

---------------------------------------------------------------------------
(* The barrage.  Positions, velocities, scales, volumes and the effect     *)
(* accumulators are in hundredths, rotations in units of 10^-5; a product  *)
(* is rounded toward zero to the unit.                                     *)

ScreenWidth == 192000
ScreenHeight == 108000

ColRed == <<198, 40, 40, 255>>
ColWhite == <<240, 240, 240, 255>>
ColYellow == <<253, 216, 53, 255>>
ColCyan == <<0, 255, 255, 255>>

Abs(x) == IF x < 0 THEN -x ELSE x

\* x * n / d
Mul(x, n, d) == IF x * n >= 0 THEN (x * n) \div d ELSE -((-(x * n)) \div d)

gravity == 25
floorY == ScreenHeight - 10000

\* the body of `if !b.IsResting` with a bounce that reflects all of vy
MoveWord_FullBounce(b) ==
    LET grav == IF b.IsFiller THEN Mul(gravity, 2, 10) ELSE gravity
        vy1 == b.VY + grav
        x1 == b.X + b.VX
        y1 == b.Y + vy1
        vx1 == Mul(b.VX, 98, 100)
        floor == y1 > floorY
        vy2 == IF floor THEN -vy1 ELSE vy1
        vx2 == IF floor THEN Mul(vx1, 8, 10) ELSE vx1
        rest == floor /\ Abs(vy2) < 100
        wall == x1 < 5000 \/ x1 > ScreenWidth - 5000
        vx3 == IF wall THEN Mul(vx2, -8, 10) ELSE vx2
    IN  [b EXCEPT !.VY = IF rest THEN 0 ELSE vy2,
                  !.X = IF wall THEN x1 + vx3 ELSE x1,
                  !.Y = IF floor THEN floorY ELSE y1,
                  !.Rotation = b.Rotation + b.VRotation,
                  !.VX = vx3,
                  !.VRotation = Mul(b.VRotation, 98, 100),
                  !.IsResting = rest]

\* the body of `if !b.IsResting`: one step of a word that is not resting
MoveWord(b) ==
    LET grav == IF b.IsFiller THEN Mul(gravity, 2, 10) ELSE gravity
        vy1 == b.VY + grav
        x1 == b.X + b.VX
        y1 == b.Y + vy1
        vx1 == Mul(b.VX, 98, 100)
        floor == y1 > floorY
        vy2 == IF floor THEN Mul(vy1, -6, 10) ELSE vy1
        vx2 == IF floor THEN Mul(vx1, 8, 10) ELSE vx1
        rest == floor /\ Abs(vy2) < 100
        wall == x1 < 5000 \/ x1 > ScreenWidth - 5000
        vx3 == IF wall THEN Mul(vx2, -8, 10) ELSE vx2
    IN  [b EXCEPT !.VY = IF rest THEN 0 ELSE vy2,
                  !.X = IF wall THEN x1 + vx3 ELSE x1,
                  !.Y = IF floor THEN floorY ELSE y1,
                  !.Rotation = b.Rotation + b.VRotation,
                  !.VX = vx3,
                  !.VRotation = Mul(b.VRotation, 98, 100),
                  !.IsResting = rest]

\* the loop over g.barrage ageing only the words that are not resting
updateBarrage_RestingKeepLife(bs) ==
    LET step(b) == IF b.IsResting THEN b ELSE [MoveWord(b) EXCEPT !.Life = @ - 1]
        moved == [i \in DOMAIN bs |-> step(bs[i])]
    IN  SelectSeq(moved, LAMBDA b : b.Life > 0)

\* the loop over g.barrage with resting words still rotating
updateBarrage_RestingSpins(bs) ==
    LET step(b) == [(IF b.IsResting THEN [b EXCEPT !.Rotation = @ + b.VRotation]
                     ELSE MoveWord(b)) EXCEPT !.Life = @ - 1]
        moved == [i \in DOMAIN bs |-> step(bs[i])]
    IN  SelectSeq(moved, LAMBDA b : b.Life > 0)

\* the loop over g.barrage: newBarrage
updateBarrage(bs) ==
    LET step(b) == [(IF b.IsResting THEN b ELSE MoveWord(b)) EXCEPT !.Life = @ - 1]
        moved == [i \in DOMAIN bs |-> step(bs[i])]
    IN  SelectSeq(moved, LAMBDA b : b.Life > 0)

\* the Game fields spawning and physics read and write, as one value
\* the code point of a character of the model's texts (KYOU stands for U+4ECA)
Rune(ch) ==
    CASE ch = "MU" -> 30683
      [] ch = "JUN" -> 30462
      [] ch = "fu" -> 12405
      [] ch = "za" -> 12374
      [] ch = "ke" -> 12369
      [] ch = "ru" -> 12427
      [] ch = "na" -> 12394
      [] ch = "USO" -> 22040
      [] ch = "ZETSU" -> 32118
      [] ch = "TAI" -> 23550
      [] ch = "CHIGA" -> 36949
      [] ch = "u" -> 12358
      [] ch = "HEN" -> 22793
      [] ch = "o" -> 12362
      [] ch = "ka" -> 12363
      [] ch = "shi" -> 12375
      [] ch = "i" -> 12356
      [] ch = "de" -> 12391
      [] ch = "mo" -> 12418
      [] ch = "da" -> 12384
      [] ch = "ga" -> 12364
      [] ch = "GYAKU" -> 36870
      [] ch = "ni" -> 12395
      [] ch = "to" -> 12392
      [] ch = "ha" -> 12399
      [] ch = "GEN" -> 35328
      [] ch = "e" -> 12360
      [] ch = "do" -> 12393
      [] ch = "HAN" -> 21453
      [] ch = "xtsu" -> 12387
      [] ch = "-" -> 12540
      [] ch = "n" -> 12435
      [] ch = "a" -> 12354
      [] ch = "no" -> 12398
      [] ch = "TA" -> 22810
      [] ch = "BUN" -> 20998
      [] ch = "UE" -> 19978
      [] ch = "SHITA" -> 19979
      [] ch = "AMA" -> 22825
      [] ch = "IDO" -> 20117
      [] ch = "sa" -> 12373
      [] ch = "ma" -> 12414
      [] ch = "TEN" -> 36578
      [] ch = "SA" -> 24038
      [] ch = "YUU" -> 21491
      [] ch = "KAGAMI" -> 37857
      [] ch = "IRO" -> 33394
      [] ch = "kaK" -> 12459
      [] ch = "raK" -> 12521
      [] ch = "." -> 46
      [] ch = "MA" -> 38291
      [] ch = "CHIN" -> 27784
      [] ch = "MOKU" -> 40665
      [] ch = "SEI" -> 38745
      [] ch = "JAKU" -> 23490
      [] ch = "KYOU" -> 20170

\* hash % 360 of textToColor: hash = int(c) + ((hash << 5) - hash) over the runes
\* of text, kept modulo 360 (the 64-bit hash of a text of up to 12 characters
\* neither wraps nor turns negative)
RECURSIVE HueOf(_)
HueOf(text) ==
    IF text = <<>> THEN 0
    ELSE (Rune(text[Len(text)]) + 31 * HueOf(SubSeq(text, 1, Len(text) - 1))) % 360

\* the hues at which the float64 value of (x + m) * 255 falls just below the
\* integer it equals in exact arithmetic
FloatShort == {10, 85, 130, 230, 275, 325}

\* the HSV conversion of textToColor for hue h, saturation 0.8, value 0.2:
\* uint8((r + m) * 255) of the chroma c is 51, of 0 is 10, and of x as below
HueColor(h) ==
    LET a == Abs((h % 120) - 60)
        x == (408 * (60 - a) + 6120) \div 600 - (IF h \in FloatShort THEN 1 ELSE 0)
    IN  CASE h < 60 -> <<51, x, 10, 255>>
          [] h >= 60 /\ h < 120 -> <<x, 51, 10, 255>>
          [] h >= 120 /\ h < 180 -> <<10, 51, x, 255>>
          [] h >= 180 /\ h < 240 -> <<10, x, 51, 255>>
          [] h >= 240 /\ h < 300 -> <<x, 10, 51, 255>>
          [] h >= 300 -> <<51, 10, x, 255>>

\* textToColor: the colour of the hue hashed from the text (the hue is computed
\* once)
textToColor(text) == CHOOSE c \in {HueColor(h) : h \in {HueOf(text)}} : TRUE

\* one channel of lerpColor: uint8(float64(c1) + float64(c2 - c1) * 0.05), the
\* conversion cutting off the fraction
lerpChannel(c1, c2) ==
    IF c2 >= c1 THEN c1 + (c2 - c1) \div 20 ELSE c1 - ((c1 - c2) + 19) \div 20

\* lerpColor(c1, c2, 0.05)
lerpColor(c1, c2) ==
    <<lerpChannel(c1[1], c2[1]), lerpChannel(c1[2], c2[2]), lerpChannel(c1[3], c2[3]), 255>>

\* "Color Logic" of updatePhysics
ColorLogic(G) ==
    LET target == IF G.CurrentState = "SPLIT" THEN ColRed ELSE G.targetBgColor
    IN  [G EXCEPT !.targetBgColor = target, !.bgColor = lerpColor(G.bgColor, target)]

Game ==
    [barrage |-> barrage, currentSpeaker |-> currentSpeaker,
     lastWordTime |-> lastWordTime, micVolume |-> micVolume,
     shakeAmount |-> shakeAmount, flashIntensity |-> flashIntensity,
     bgColor |-> bgColor, targetBgColor |-> targetBgColor,
     CurrentState |-> CurrentState]

SetGame(G) ==
    /\ barrage' = G.barrage
    /\ currentSpeaker' = G.currentSpeaker
    /\ lastWordTime' = G.lastWordTime
    /\ micVolume' = G.micVolume
    /\ shakeAmount' = G.shakeAmount
    /\ flashIntensity' = G.flashIntensity
    /\ bgColor' = G.bgColor
    /\ targetBgColor' = G.targetBgColor

\* "Decay Effects" without the snap of the shake
DecayEffects_NoSnap(G) ==
    [G EXCEPT !.shakeAmount = Mul(G.shakeAmount, 9, 10),
              !.flashIntensity = Mul(G.flashIntensity, 85, 100)]

\* "Decay Effects"
DecayEffects(G) ==
    LET shake == Mul(G.shakeAmount, 9, 10)
    IN  [G EXCEPT !.shakeAmount = IF shake < 50 THEN 0 ELSE shake,
                  !.flashIntensity = Mul(G.flashIntensity, 85, 100)]

updatePhysics(G) ==
    ColorLogic([DecayEffects(G) EXCEPT !.barrage = updateBarrage(G.barrage)])

---------------------------------------------------------------------------
(* updatePhysics applied, tick after tick, to a barrage of words thrown in *)
(* every way of Throws with every life up to LifeBound.                    *)

LifeBound == 3      \* the words of SpecPhysics have at most this many ticks of life
MaxBarrage == 2     \* the barrage of SpecPhysics starts with at most this many words

TickCap == LifeBound + 1

\* where a word is and how it moves: on the floor line falling at 5.0 (a filler
\* and not), on the floor line falling at 1.0, next to the left wall (slow and
\* at 10.0, the speed of a word thrown from the right), in the air
Throws ==
    { [X |-> 96000, Y |-> floorY, VX |-> 200, VY |-> 500, IsFiller |-> FALSE],
      [X |-> 96000, Y |-> floorY, VX |-> 200, VY |-> 500, IsFiller |-> TRUE],
      [X |-> 96000, Y |-> floorY, VX |-> 0, VY |-> 100, IsFiller |-> FALSE],
      [X |-> 5100, Y |-> floorY - 1000, VX |-> -300, VY |-> 300, IsFiller |-> FALSE],
      [X |-> 5100, Y |-> 40000, VX |-> -1000, VY |-> -500, IsFiller |-> FALSE],
      [X |-> 96000, Y |-> 40000, VX |-> 500, VY |-> -500, IsFiller |-> TRUE] }

\* a BarrageWord with the life it was spawned with
Thrown(t, life) ==
    [Text |-> <<"KYOU">>, X |-> t.X, Y |-> t.Y, VX |-> t.VX, VY |-> t.VY,
     Scale |-> 100, ScaleX |-> 100, Color |-> ColWhite, Life |-> life,
     MaxLife |-> life, IsGlitch |-> FALSE, Rotation |-> 0, VRotation |-> 5000,
     IsResting |-> FALSE, IsFiller |-> t.IsFiller]

RECURSIVE BarragesOf(_)
BarragesOf(n) ==
    IF n = 0 THEN {<<>>}
    ELSE LET shorter == BarragesOf(n - 1)
         IN  shorter \cup {Append(bs, Thrown(t, life)) :
                              bs \in shorter, t \in Throws, life \in 1..LifeBound}

ZeroGame ==
    /\ currentSpeaker = 0
    /\ lastWordTime = ZeroTime
    /\ micVolume = 0
    /\ shakeAmount = 0
    /\ flashIntensity = 0
    /\ frameCount = 0
    /\ bgColor = ColZero
    /\ targetBgColor = ColZero

ZeroChans ==
    /\ TextChan = <<>>
    /\ VolChan = <<>>
    /\ cb = CallbackIdle

ZeroNet ==
    /\ state = ZeroState
    /\ silenceStage = 0
    /\ conn = ConnNil
    /\ mu = MuFree
    /\ pc = PcInit

InitPhysics ==
    /\ BrainInit
    /\ CurrentState = ""
    /\ spawned = <<>>
    /\ obs = ObsInit
    /\ speech = Utterances
    /\ ZeroGame
    /\ ZeroChans
    /\ ZeroNet
    /\ dice = {0}
    /\ \E bs \in BarragesOf(MaxBarrage) :
           /\ barrage = bs
           /\ seen = [SeenInit EXCEPT !.born = bs]

updatePhysicsCall ==
    /\ SetGame(updatePhysics(Game))
    /\ seen' = [seen EXCEPT !.ticks = IF @ < TickCap THEN @ + 1 ELSE @]
    /\ UNCHANGED <<brainVars, ret, speech, CurrentState, spawned, obs, frameCount,
                   chanVars, netVars, dice>>

SpecPhysics == InitPhysics /\ [][updatePhysicsCall]_vars

---------------------------------------------------------------------------
(* Spawning.  rnd holds the value of each rand.Float64() call of one spawn, *)
(* named after what it is used for; each is one of dice, in hundredths.     *)

\* strings.HasPrefix(style, "silence_"), over the styles of the model
HasPrefixSilence(style) ==
    style \in {"silence_", "silence_dots", "silence_ma", "silence_heavy",
               "silence_abyss", "silence_other"}

\* len(text) <= 3: the bytes of the text; "." is one byte, every other
\* character of the model's texts is three
ByteLen(text) ==
    3 * Len(text) - 2 * Cardinality({i \in DOMAIN text : text[i] = "."})

Rnds == [scale : dice, rot : dice, vrot : dice, x : dice, y : dice, vx : dice, vy : dice]

\* the turn logic flipping the side from 2.0 s on, for silence words too
TurnLogic_FlipAtTwo(G, style) ==
    [G EXCEPT !.currentSpeaker =
                  IF G.lastWordTime >= Seconds(2) \/ style = "conjunction"
                  THEN (@ + 1) % 2 ELSE @,
              !.lastWordTime = 0]

\* "Turn Logic": the speaker side and the time of the last word
TurnLogic(G, style) ==
    IF ~HasPrefixSilence(style)
    THEN [G EXCEPT !.currentSpeaker =
                       IF G.lastWordTime > Seconds(2) \/ style = "conjunction"
                       THEN (@ + 1) % 2 ELSE @,
                   !.lastWordTime = 0]
    ELSE G

\* "Physics Defaults" and "Base Positioning": what the style alone decides.
\* burst says whether the style takes the first branch (glitch, and in the
\* standalone renderer impact).
BaseWord(G, style, burst, rnd) ==
    LET nuance == 100 + 3 * G.micVolume
        nuanceScale == IF nuance > 400 THEN 400 ELSE nuance
        scale == nuanceScale + Mul(rnd.scale, 5, 10)
        centre == ScreenWidth \div 2 + 400 * rnd.x - 20000
        side == 10000 + Mul(rnd.x, ScreenWidth - 20000, 100)
        word == [scale |-> scale, life |-> 600, colorVal |-> ColWhite, scaleX |-> 100,
                 startX |-> 0, startY |-> 0, vx |-> 0, vy |-> 0,
                 rot |-> (rnd.rot - 50) * 500, vrot |-> (rnd.vrot - 50) * 100]
    IN  IF burst
        THEN [word EXCEPT !.scale = Mul(scale, 15, 10), !.startX = centre,
                          !.vx = (rnd.vx - 50) * 10, !.vy = (rnd.vy - 50) * 10,
                          !.colorVal = ColRed, !.life = 300]
        ELSE IF style = "silence_dots"
        THEN [word EXCEPT !.scale = 100, !.life = 300,
                          !.startX = Mul(rnd.x, ScreenWidth, 100),
                          !.startY = Mul(rnd.y, ScreenHeight, 100),
                          !.vx = Mul(rnd.vx - 50, 5, 10), !.vy = Mul(rnd.vy - 50, 5, 10),
                          !.colorVal = <<100, 100, 100, 100>>]
        ELSE IF style = "silence_ma"
        THEN [word EXCEPT !.scale = 300, !.life = 800, !.startX = ScreenWidth \div 2,
                          !.startY = ScreenHeight \div 3,
                          !.colorVal = <<200, 200, 255, 200>>]
        ELSE IF style = "silence_heavy"
        THEN [word EXCEPT !.scale = 500, !.life = 1000, !.startX = side,
                          !.startY = -10000, !.vy = 1500,
                          !.colorVal = <<50, 50, 50, 255>>]
        ELSE IF style = "silence_abyss"
        THEN [word EXCEPT !.scale = 700, !.life = 1200, !.startX = side,
                          !.startY = ScreenHeight + 10000, !.vy = -100,
                          !.colorVal = <<5, 5, 20, 255>>]
        ELSE [word EXCEPT !.startX = IF G.CurrentState = "SPLIT" THEN centre
                                     ELSE IF G.currentSpeaker = 0
                                     THEN Mul(ScreenWidth, 2, 10) + 100 * rnd.x
                                     ELSE Mul(ScreenWidth, 8, 10) - 100 * rnd.x,
                          !.vx = IF G.CurrentState = "SPLIT" THEN (rnd.vx - 50) * 10
                                 ELSE IF G.currentSpeaker = 0 THEN 500 + 5 * rnd.vx
                                 ELSE -500 - 5 * rnd.vx,
                          !.startY = Mul(ScreenHeight, 4, 10) + 200 * rnd.y - 10000,
                          !.vy = -500 - 5 * rnd.vy]

\* the switch on the colour tag; colorVal is kept for a tag the switch does not list
ColorOf(tag, colorVal) ==
    CASE tag = "cyan" -> ColCyan
      [] tag = "red" -> ColRed
      [] tag = "yellow" -> ColYellow
      [] tag = "grey" -> <<200, 200, 200, 150>>
      [] tag = "dark_grey" -> <<50, 50, 50, 255>>
      [] tag = "black" -> <<5, 5, 20, 255>>
      [] tag = "blue_white" -> <<200, 200, 255, 200>>
      [] tag = "grey_alpha" -> <<100, 100, 100, 100>>
      [] OTHER -> colorVal

\* bw := BarrageWord{...}
Literal(text, style, w) ==
    [Text |-> text, X |-> w.startX, Y |-> w.startY, VX |-> w.vx, VY |-> w.vy,
     Scale |-> w.scale, ScaleX |-> w.scaleX, Color |-> w.colorVal, Life |-> w.life,
     MaxLife |-> w.life, IsGlitch |-> (style = "glitch" \/ style = "impact"),
     Rotation |-> w.rot, VRotation |-> w.vrot, IsResting |-> FALSE,
     IsFiller |-> (ByteLen(text) <= 3 /\ ~HasPrefixSilence(style))]

\* the forced override taking impact for glitch
ForcedOverride_Impact(G, style, bw) ==
    IF G.CurrentState = "SPLIT" \/ style = "glitch" \/ style = "impact"
    THEN [bw EXCEPT !.Color = ColRed, !.VX = 2 * @, !.VY = 2 * @]
    ELSE bw

\* the forced override doubling the horizontal velocity only
ForcedOverride_Horizontal(G, style, bw) ==
    IF G.CurrentState = "SPLIT" \/ style = "glitch"
    THEN [bw EXCEPT !.Color = ColRed, !.VX = 2 * @]
    ELSE bw

\* if g.state.CurrentState == "SPLIT" || style == "glitch" { ... }
ForcedOverride(G, style, bw) ==
    IF G.CurrentState = "SPLIT" \/ style = "glitch"
    THEN [bw EXCEPT !.Color = ColRed, !.VX = 2 * @, !.VY = 2 * @]
    ELSE bw

\* "Update Target Background": skip holds the styles that leave it alone
TargetBg(G, style, text, skip) ==
    IF style \notin skip /\ G.CurrentState # "SPLIT"
    THEN [G EXCEPT !.targetBgColor = IF style = "conjunction" THEN <<50, 50, 50, 255>>
                                     ELSE textToColor(text)]
    ELSE G

\* what a spawn returns to its observer: the Game after it, the literal bw and
\* the word appended
Spawned(G, bw, word) ==
    [G |-> [G EXCEPT !.barrage = Append(@, word)], bw |-> bw, word |-> word]

\* the multiplier applied before the absolute velocity, which then replaces
\* the product
VyOverride_MultFirst(base, hasVY, vy, hasMult, mult, unit) ==
    IF hasVY THEN vy ELSE IF hasMult THEN Mul(base, mult, unit) ELSE base

\* the vy overrides: the absolute velocity, then the multiplier (unit is 1.0
\* in the multiplier's units)
VyOverride(base, hasVY, vy, hasMult, mult, unit) ==
    LET vy1 == IF hasVY THEN vy ELSE base
    IN  IF hasMult THEN Mul(vy1, mult, unit) ELSE vy1

\* WordConfig numbers are in tenths
spawnWordFromConfig(G, cfg, rnd) ==
    LET style == cfg.Style
        G1 == TargetBg(TurnLogic(G, style), style, cfg.Text, {"glitch", "impact"})
        w0 == BaseWord(G1, style, style = "glitch" \/ style = "impact", rnd)
        w == [w0 EXCEPT !.rot = IF cfg.Rot # 0 THEN cfg.Rot ELSE @,
                        !.scaleX = IF cfg.ScaleX # 10 THEN 10 * cfg.ScaleX ELSE @,
                        !.vy = VyOverride(@, cfg.VY # 0, 10 * cfg.VY,
                                          cfg.VYMult # 10, cfg.VYMult, 10),
                        !.scale = IF cfg.Scale # 10 THEN 10 * cfg.Scale ELSE @,
                        !.colorVal = ColorOf(cfg.Color, @)]
        G2 == [G1 EXCEPT !.shakeAmount = IF cfg.Shake > 0 THEN @ + 10 * cfg.Shake ELSE @,
                         !.flashIntensity = IF cfg.Flash THEN 100 ELSE @]
        bw == Literal(cfg.Text, style, w)
    IN  Spawned(G2, bw, ForcedOverride(G2, style, bw))

\* config[key].(string), .(float64), .(bool): whether the key is there with a
\* value of the type, and the value
Has(config, key, type) == key \in DOMAIN config /\ config[key].t = type

StringOf(config, key) == IF Has(config, key, "string") THEN config[key].v ELSE ""

\* config[key].(float64), and data[key] as a float64 field of a struct
NumberOf(config, key) == IF Has(config, key, "number") THEN config[key].v ELSE 0

\* the values of a decoded JSON object
JStr(v) == [t |-> "string", v |-> v]
JNum(v) == [t |-> "number", v |-> v]
JBool(v) == [t |-> "bool", v |-> v]

\* The network renderer's spawn.  The numbers of config are in hundredths
\* (rot in 10^-5).
spawnWordInternal(G, text, config, rnd) ==
    LET style == StringOf(config, "style")
        G1 == TurnLogic(TargetBg(G, style, text, {"glitch"}), style)
        w0 == BaseWord(G1, style, style = "glitch", rnd)
        w == [w0 EXCEPT !.rot = IF Has(config, "rot", "number") THEN config["rot"].v ELSE @,
                        !.scaleX = IF Has(config, "scalex", "number")
                                   THEN config["scalex"].v ELSE @,
                        !.vy = VyOverride(@, Has(config, "vy", "number"),
                                          NumberOf(config, "vy"),
                                          Has(config, "vy_mult", "number"),
                                          NumberOf(config, "vy_mult"), 100),
                        !.scale = IF Has(config, "scale", "number")
                                  THEN config["scale"].v ELSE @,
                        !.colorVal = IF Has(config, "color", "string")
                                     THEN ColorOf(config["color"].v, @) ELSE @]
        G2 == [G1 EXCEPT !.shakeAmount = IF Has(config, "shake", "number")
                                         THEN @ + config["shake"].v ELSE @,
                         !.flashIntensity = IF Has(config, "flash", "bool")
                                               /\ config["flash"].v
                                            THEN 100 ELSE @]
        bw == Literal(text, style, w)
    IN  Spawned(G2, bw, ForcedOverride(G2, style, bw))

---------------------------------------------------------------------------
(* One spawn, by either renderer, of every config of Configs and           *)
(* NetConfigs in every Game of InitSpawn.                                  *)

\* the values rand.Float64() returns in SpecSpawn: 0.0 and 0.5
Rand == {0, 50}

\* the configs the Brain hands to spawnWordFromConfig: one utterance of each
\* style (the first one a filler), and the silence words; and a config with
\* both an absolute vertical velocity and a multiplier
Configs ==
    {AnalyzeSemantics(text) :
        text \in {<<"KYOU">>, <<"KYOU", "ni">>, <<"USO">>, JOUGE \o HANTEN,
                  SAYUU \o GYAKU, IRO \o HANTEN, <<"de", "mo">>, <<"e", "-">>}}
    \cup {silence_dots(8), silence_dots(10), silence_ma, silence_heavy, silence_abyss}
    \cup {[silence_heavy EXCEPT !.VYMult = -5]}

\* texts and configs the server hands to spawnWordInternal
NetConfigs ==
    { [text |-> <<"KYOU">>, config |-> [style |-> JStr("normal")]],
      [text |-> <<"KYOU">>, config |-> [style |-> JStr("glitch")]],
      [text |-> <<"KYOU">>, config |-> <<>>],
      [text |-> <<"USO">>,
       config |-> [style |-> JStr("impact"), flash |-> JBool(TRUE), shake |-> JNum(2000),
                   color |-> JStr("red"), scale |-> JNum(250)]],
      [text |-> <<"de", "mo">>,
       config |-> [style |-> JStr("conjunction"), scalex |-> JNum(-100),
                   rot |-> JNum(314159), color |-> JStr("yellow")]],
      [text |-> JOUGE \o HANTEN,
       config |-> [style |-> JStr("invert_v"), rot |-> JNum(314159),
                   vy_mult |-> JNum(-100), color |-> JStr("cyan")]],
      [text |-> DOTS, config |-> [style |-> JStr("silence_dots"), scale |-> JNum(80)]],
      [text |-> CHINMOKU,
       config |-> [style |-> JStr("silence_heavy"), scale |-> JNum(150),
                   vy |-> JNum(1500), color |-> JStr("dark_grey")]],
      [text |-> CHINMOKU,
       config |-> [style |-> JStr("silence_heavy"), vy |-> JNum(1500),
                   vy_mult |-> JNum(-50)]],
      [text |-> <<"KYOU">>, config |-> [style |-> JNum(1), vy |-> JStr("up")]] }

NoCall == [op |-> "none"]

InitSpawn ==
    /\ BrainInit
    /\ spawned = <<>>
    /\ obs = ObsInit
    /\ speech = Utterances
    /\ ZeroChans
    /\ silenceStage = 0
    /\ conn = ConnNil
    /\ mu = MuFree
    /\ pc = PcInit
    /\ dice = Rand
    /\ barrage = <<>>
    /\ shakeAmount = 0
    /\ flashIntensity = 0
    /\ frameCount = 0
    /\ bgColor = ColZero
    /\ targetBgColor = ColZero
    /\ seen = [SeenInit EXCEPT !.call = NoCall]
    /\ CurrentState \in {"UNKNOWN", "ALIGNED", "SPLIT"}
    /\ state = [ZeroState EXCEPT !.CurrentState = CurrentState]
    /\ currentSpeaker \in {0, 1}
    /\ lastWordTime \in {Seconds(2), Seconds(2) + 1, ZeroTime}
    /\ micVolume \in {0, 50}

spawnWordFromConfigCall ==
    /\ seen.call = NoCall
    /\ \E cfg \in Configs, rnd \in Rnds :
           LET r == spawnWordFromConfig(Game, cfg, rnd)
           IN  /\ SetGame(r.G)
               /\ seen' = [seen EXCEPT !.call =
                              [op |-> "spawnWordFromConfig", G |-> Game,
                               style |-> cfg.Style, text |-> cfg.Text,
                               cfg |-> cfg, rnd |-> rnd,
                               bw |-> r.bw, word |-> r.word]]
    /\ UNCHANGED <<brainVars, ret, speech, CurrentState, spawned, obs, frameCount,
                   chanVars, netVars, dice>>

spawnWordInternalCall ==
    /\ seen.call = NoCall
    /\ \E c \in NetConfigs, rnd \in Rnds :
           LET G == [Game EXCEPT !.CurrentState = state.CurrentState]
               r == spawnWordInternal(G, c.text, c.config, rnd)
           IN  /\ SetGame(r.G)
               /\ seen' = [seen EXCEPT !.call =
                              [op |-> "spawnWordInternal", G |-> G,
                               style |-> StringOf(c.config, "style"), text |-> c.text,
                               config |-> c.config, rnd |-> rnd,
                               bw |-> r.bw, word |-> r.word]]
    /\ UNCHANGED <<brainVars, ret, speech, CurrentState, spawned, obs, frameCount,
                   chanVars, netVars, dice>>

NextSpawn == spawnWordFromConfigCall \/ spawnWordInternalCall

SpecSpawn == InitSpawn /\ [][NextSpawn]_vars

---------------------------------------------------------------------------
(* The standalone renderer as a whole: the audio callback publishing on    *)
(* VolChan and TextChan, and Game.Update, the whole tick, consuming them.   *)
(* One clock unit passes between two ticks.                                *)

ChanCap == 10       \* make(chan string, 10), make(chan float64, 10)
MaxFrames == 3      \* SpecGame: Update runs this many times

\* the rms value of the run: 0.20
Samples == {20}

\* a stored age one clock unit later
Older(age) == IF age < ZeroTime THEN age + 1 ELSE age

\* "1. Audio Processing" with a plain receive in the place of the select
ConsumeAudio_Receive(mic, ch) ==
    IF ch # <<>>
    THEN [micVolume |-> IF 8 * Head(ch) > mic THEN 8 * Head(ch) ELSE Mul(mic, 92, 100),
          VolChan |-> Tail(ch), blocked |-> FALSE]
    ELSE [micVolume |-> mic, VolChan |-> ch, blocked |-> TRUE]

\* "1. Audio Processing": the select on g.audioChan.  blocked says whether the
\* statement waits for a sender.
ConsumeAudio(mic, ch) ==
    IF ch # <<>>
    THEN LET target == 8 * Head(ch)
         IN  [micVolume |-> IF target > mic THEN target ELSE Mul(mic, 92, 100),
              VolChan |-> Tail(ch), blocked |-> FALSE]
    ELSE [micVolume |-> Mul(mic, 95, 100), VolChan |-> ch, blocked |-> FALSE]

\* "2. Consume Speech": the select on g.speech.TextChan; heard is <<>> or <<text>>
ConsumeSpeech(ch) ==
    IF ch # <<>>
    THEN [heard |-> <<Head(ch)>>, TextChan |-> Tail(ch), blocked |-> FALSE]
    ELSE [heard |-> <<>>, TextChan |-> ch, blocked |-> FALSE]

\* Game.Update waits if one of its two receives does
UpdateWaits ==
    \/ ConsumeAudio(micVolume, VolChan).blocked
    \/ ConsumeSpeech(TextChan).blocked

\* Game.Update of the standalone renderer
UpdateTick ==
    \E rnd1 \in Rnds, rnd2 \in Rnds :
        LET a == ConsumeAudio(micVolume, VolChan)
            s == ConsumeSpeech(TextChan)
            said == s.heard # <<>>
            b0 == Aged(Brain, 1)
            G0 == [Game EXCEPT !.micVolume = a.micVolume,
                               !.lastWordTime = Older(lastWordTime)]
            p == IF said THEN ProcessText(b0, s.heard[1])
                 ELSE [b |-> b0, cfg |-> ZeroWordConfig]
            G1 == IF said THEN spawnWordFromConfig(G0, p.cfg, rnd1).G ELSE G0
            c == CheckSilence(p.b)
            G2 == IF c.ok THEN spawnWordFromConfig(G1, c.cfg, rnd2).G ELSE G1
            g == GetState(c.b)
            G3 == updatePhysics([G2 EXCEPT !.CurrentState = g.state])
        IN  /\ ~UpdateWaits
            /\ frameCount' = frameCount + 1
            /\ VolChan' = a.VolChan
            /\ TextChan' = s.TextChan
            /\ SetBrain(g.b)
            /\ CurrentState' = g.state
            /\ SetGame(G3)
            /\ spawned' = (IF said THEN <<p.cfg>> ELSE <<>>)
                              \o (IF c.ok THEN <<c.cfg>> ELSE <<>>)
            /\ seen' = [seen EXCEPT !.call = [op |-> "Update", vols |-> Len(VolChan),
                                              texts |-> Len(TextChan),
                                              used |-> G0.CurrentState,
                                              band |-> GetState(p.b).state]]
            /\ UNCHANGED <<ret, speech, obs, cb, netVars, dice>>

\* The Data callback up to its send on TextChan: the volume is published if
\* VolChan has room and dropped if not; then the recogniser has a text or not.
CallbackData ==
    /\ cb.pc = "idle"
    /\ \E rms \in Samples :
           VolChan' = IF Len(VolChan) < ChanCap THEN Append(VolChan, rms) ELSE VolChan
    /\ \/ cb' = cb
       \/ \E txt \in speech : cb' = [pc |-> "send", txt |-> txt]
    /\ UNCHANGED <<brainVars, ret, speech, CurrentState, spawned, obs, gameVars,
                   TextChan, netVars, dice, seen>>

\* se.TextChan <- txt, which waits while TextChan is full
CallbackSend ==
    /\ cb.pc = "send"
    /\ Len(TextChan) < ChanCap
    /\ TextChan' = Append(TextChan, cb.txt)
    /\ cb' = CallbackIdle
    /\ UNCHANGED <<brainVars, ret, speech, CurrentState, spawned, obs, gameVars,
                   VolChan, netVars, dice, seen>>

\* main: a new Game and Brain, the speech engine started, and the danger word
\* the one utterance of the run
InitGame ==
    /\ BrainInit
    /\ CurrentState = ""
    /\ spawned = <<>>
    /\ obs = ObsInit
    /\ speech = {<<"USO">>}
    /\ ZeroGame
    /\ ZeroChans
    /\ ZeroNet
    /\ dice = {0}
    /\ barrage = <<>>
    /\ seen = [SeenInit EXCEPT !.call = NoCall]

NextGame ==
    \/ frameCount < MaxFrames /\ UpdateTick
    \/ CallbackData
    \/ CallbackSend

SpecGame == InitGame /\ [][NextGame]_vars

---------------------------------------------------------------------------
(* The network renderer: Game.Update under g.mu, the connect goroutine     *)
(* with its write loop, and the reader goroutine of each connection, which *)
(* passes every message it reads to handleMessage.                         *)

MaxMsgs == 2        \* the readers read this many messages in a run
MaxDials == 2       \* this many dials succeed in a run

\* the variables of the standalone renderer's Brain and tick
brainSide == <<brainVars, ret, speech, CurrentState, spawned, obs>>

\* the Game as the network renderer's spawnWordInternal finds it
NetGame == [Game EXCEPT !.CurrentState = state.CurrentState]

\* A message of the web socket: what kind of JSON text it is ("invalid" for
\* text that is not JSON) and, for an object, its decoded members.
NoMsg == [json |-> "none", data |-> <<>>]
Obj(data) == [json |-> "object", data |-> data]

\* data["text"].(string)
TextOf(config, key) == IF Has(config, key, "string") THEN config[key].v ELSE <<>>

\* json.Unmarshal(msg, &data), data a map[string]interface{}: an error for text
\* that is not JSON and for JSON that is neither an object nor null
MapError(msg) == msg.json \notin {"object", "null"}

\* the JSON members of State and their types
StateKeys == [state |-> "string", split_degree |-> "number", strength |-> "number",
              word |-> "string"]

\* json.Unmarshal(msg, &newState): a member of State with a value of another
\* type is an error, a member that is absent keeps the zero value, and members
\* that State does not have are skipped
UnmarshalState(msg) ==
    [err |-> \E k \in DOMAIN StateKeys :
                 k \in DOMAIN msg.data /\ msg.data[k].t # StateKeys[k],
     state |-> [CurrentState |-> StringOf(msg.data, "state"),
                SplitDegree |-> NumberOf(msg.data, "split_degree"),
                Strength |-> NumberOf(msg.data, "strength"),
                FlashWord |-> TextOf(msg.data, "word")]]

\* handleMessage from g.mu.Lock() on, for a message that decoded into data
handleMessage(G, st, msg, rnd) ==
    LET data == msg.data
        msgType == StringOf(data, "type")
        u == UnmarshalState(msg)
    IN  IF msgType = "spawn_word"
        THEN [G |-> spawnWordInternal(G, TextOf(data, "text"), data, rnd).G, state |-> st]
        ELSE IF msgType = "flash"
        THEN IF Has(data, "word", "string")
             THEN [G |-> spawnWordInternal(G, data["word"].v,
                                           [style |-> JStr("glitch")], rnd).G,
                   state |-> st]
             ELSE [G |-> G, state |-> st]
        ELSE [G |-> G, state |-> IF u.err THEN st ELSE u.state]

\* the four silence words of Game.Update, in the order of its four tests
SilenceWords ==
    << [after |-> 2, text |-> DOTS,
        config |-> [style |-> JStr("silence_dots"), scale |-> JNum(80)]],
       [after |-> 5, text |-> MA,
        config |-> [style |-> JStr("silence_ma"), scale |-> JNum(100)]],
       [after |-> 8, text |-> CHINMOKU,
        config |-> [style |-> JStr("silence_heavy"), scale |-> JNum(150)]],
       [after |-> 12, text |-> SEIJAKU,
        config |-> [style |-> JStr("silence_abyss"), scale |-> JNum(200)]] >>

\* the k-th silence test of Game.Update
SilenceTest(acc, k, silenceDur, rnd) ==
    IF silenceDur > Seconds(SilenceWords[k].after) /\ acc.stage = k - 1
    THEN [G |-> spawnWordInternal(acc.G, SilenceWords[k].text,
                                  SilenceWords[k].config, rnd).G,
          stage |-> k]
    ELSE acc

\* Game.Update of the network renderer between g.mu.Lock() and g.mu.Unlock(),
\* one clock unit after the tick before
UpdateNet(G, stage, ch, rnds) ==
    LET a == ConsumeAudio(G.micVolume, ch)
        G1 == updatePhysics([G EXCEPT !.micVolume = a.micVolume,
                                      !.lastWordTime = Older(@)])
        silenceDur == G1.lastWordTime
        s1 == SilenceTest([G |-> G1, stage |-> stage], 1, silenceDur, rnds[1])
        s2 == SilenceTest(s1, 2, silenceDur, rnds[2])
        s3 == SilenceTest(s2, 3, silenceDur, rnds[3])
        s4 == SilenceTest(s3, 4, silenceDur, rnds[4])
    IN  [G |-> s4.G, stage |-> s4.stage, VolChan |-> a.VolChan]

\* g.mu.Lock() of Game.Update
UpdateLock ==
    /\ pc.tick = "idle"
    /\ mu = MuFree
    /\ mu' = [holder |-> "tick", c |-> 0]
    /\ pc' = [pc EXCEPT !.tick = "body"]
    /\ UNCHANGED <<brainSide, gameVars, chanVars, state, silenceStage, conn, dice, seen>>

\* Game.Update from g.frameCount++ to g.mu.Unlock()
UpdateBody ==
    /\ pc.tick = "body"
    /\ \E rnds \in [1..4 -> Rnds] :
           LET u == UpdateNet(NetGame, silenceStage, VolChan, rnds)
           IN  /\ SetGame(u.G)
               /\ silenceStage' = u.stage
               /\ VolChan' = u.VolChan
    /\ frameCount' = frameCount + 1
    /\ mu' = MuFree
    /\ pc' = [pc EXCEPT !.tick = "idle"]
    /\ UNCHANGED <<brainSide, TextChan, cb, state, conn, dice, seen>>

\* the readers with r replaced by q
SetReader(r, q) == (pc.readers \ {r}) \cup {q}

\* c.ReadMessage() returning a message
ReadMessage(r, m) ==
    /\ r \in pc.readers
    /\ r.at = "read"
    /\ r.c \in conn.live
    /\ conn.rcvd < MaxMsgs
    /\ conn' = [conn EXCEPT !.rcvd = @ + 1]
    /\ pc' = [pc EXCEPT !.readers = SetReader(r, [r EXCEPT !.at = "handle", !.msg = m])]
    /\ UNCHANGED <<brainSide, gameVars, chanVars, state, silenceStage, mu, dice, seen>>

\* c.ReadMessage() returning an error, because the connection broke or was
\* closed: the reader returns and its deferred close(done) runs
ReadError(r) ==
    /\ r \in pc.readers
    /\ r.at = "read"
    /\ conn' = [conn EXCEPT !.done = @ \cup {r.c}]
    /\ pc' = [pc EXCEPT !.readers = @ \ {r}]
    /\ UNCHANGED <<brainSide, gameVars, chanVars, state, silenceStage, mu, dice, seen>>

\* where handleMessage goes after json.Unmarshal(msg, &data), had it no
\* g.mu.Lock()
Decoded_Unlocked(msg) == IF MapError(msg) THEN "read" ELSE "apply"

\* where handleMessage goes after json.Unmarshal(msg, &data): back to the
\* read loop on an error, else to g.mu.Lock()
Decoded(msg) == IF MapError(msg) THEN "read" ELSE "lock"

\* handleMessage up to g.mu.Lock()
handleMessageDecode(r) ==
    /\ r \in pc.readers
    /\ r.at = "handle"
    /\ pc' = [pc EXCEPT !.readers = SetReader(r, [r EXCEPT !.at = Decoded(r.msg)])]
    /\ UNCHANGED <<brainSide, gameVars, chanVars, state, silenceStage, conn, mu, dice, seen>>

\* g.mu.Lock() of handleMessage
handleMessageLock(r) ==
    /\ r \in pc.readers
    /\ r.at = "lock"
    /\ mu = MuFree
    /\ mu' = [holder |-> "reader", c |-> r.c]
    /\ pc' = [pc EXCEPT !.readers = SetReader(r, [r EXCEPT !.at = "apply"])]
    /\ UNCHANGED <<brainSide, gameVars, chanVars, state, silenceStage, conn, dice, seen>>

\* handleMessage after g.mu.Lock(), with the deferred g.mu.Unlock()
handleMessageApply(r) ==
    /\ r \in pc.readers
    /\ r.at = "apply"
    /\ \E rnd \in Rnds :
           LET h == handleMessage(NetGame, state, r.msg, rnd)
           IN  /\ SetGame(h.G)
               /\ state' = h.state
    /\ mu' = MuFree
    /\ pc' = [pc EXCEPT !.readers = SetReader(r, [r EXCEPT !.at = "read"])]
    /\ UNCHANGED <<brainSide, frameCount, chanVars, silenceStage, conn, dice, seen>>

\* websocket.DefaultDialer.Dial failing
DialFail ==
    /\ pc.connect = "dial"
    /\ pc' = [pc EXCEPT !.connect = "retry"]
    /\ UNCHANGED <<brainSide, gameVars, chanVars, state, silenceStage, conn, mu, dice, seen>>

\* time.Sleep(1 * time.Second); continue
SleepRetry ==
    /\ pc.connect = "retry"
    /\ pc' = [pc EXCEPT !.connect = "dial", !.pause = Seconds(1)]
    /\ UNCHANGED <<brainSide, gameVars, chanVars, state, silenceStage, conn, mu, dice, seen>>

\* Dial succeeding: g.conn = c, a new done channel and the reader goroutine
DialOk ==
    /\ pc.connect = "dial"
    /\ conn.dials < MaxDials
    /\ LET c == conn.dials + 1
       IN  /\ conn' = [conn EXCEPT !.ptr = c, !.dials = c, !.live = @ \cup {c}]
           /\ pc' = [pc EXCEPT !.connect = "write",
                               !.readers = @ \cup {[c |-> c, at |-> "read", msg |-> NoMsg]}]
    /\ UNCHANGED <<brainSide, gameVars, chanVars, state, silenceStage, mu, dice, seen>>

\* the write loop: case <-done
WriteDone ==
    /\ pc.connect = "write"
    /\ conn.ptr \in conn.done
    /\ pc' = [pc EXCEPT !.connect = "close"]
    /\ UNCHANGED <<brainSide, gameVars, chanVars, state, silenceStage, conn, mu, dice, seen>>

\* the write loop: case text := <-g.speech.TextChan, and c.WriteJSON
\* succeeding or failing
WriteText ==
    /\ pc.connect = "write"
    /\ TextChan # <<>>
    /\ TextChan' = Tail(TextChan)
    /\ \/ pc' = pc
       \/ pc' = [pc EXCEPT !.connect = "close"]
    /\ UNCHANGED <<brainSide, gameVars, VolChan, cb, state, silenceStage, conn, mu, dice, seen>>

\* g.conn.Close(); g.conn = nil
Closed(cn) == [cn EXCEPT !.live = @ \ {cn.ptr}, !.ptr = 0]

CloseConn ==
    /\ pc.connect = "close"
    /\ conn' = Closed(conn)
    /\ pc' = [pc EXCEPT !.connect = "sleep"]
    /\ UNCHANGED <<brainSide, gameVars, chanVars, state, silenceStage, mu, dice, seen>>

\* time.Sleep(1 * time.Second) at the end of the loop body
SleepAfterClose ==
    /\ pc.connect = "sleep"
    /\ pc' = [pc EXCEPT !.connect = "dial", !.pause = Seconds(1)]
    /\ UNCHANGED <<brainSide, gameVars, chanVars, state, silenceStage, conn, mu, dice, seen>>

---------------------------------------------------------------------------
(* The network renderer connected: ticks, and the reader handling every    *)
(* message of Messages.                                                    *)

\* what the server sends after a reset command: the state record of a
\* StateManager just reset
ResetBroadcast ==
    Obj([state |-> JStr("UNKNOWN"), tension |-> JNum(0), split_degree |-> JNum(0)])

\* well-formed spawn_word, flash and state records
WellFormed ==
    { Obj([type |-> JStr("spawn_word"), text |-> JStr(<<"de", "mo">>),
           style |-> JStr("conjunction"), scalex |-> JNum(-100),
           rot |-> JNum(314159), color |-> JStr("yellow")]),
      Obj([type |-> JStr("spawn_word"), text |-> JStr(<<"USO">>),
           style |-> JStr("impact"), flash |-> JBool(TRUE), shake |-> JNum(2000),
           color |-> JStr("red"), scale |-> JNum(250)]),
      Obj([type |-> JStr("flash"), word |-> JStr(<<"USO">>)]),
      Obj([state |-> JStr("SPLIT"), tension |-> JNum(900), split_degree |-> JNum(90)]),
      ResetBroadcast }

\* text that is not JSON, JSON that is no object, objects with an unrecognised
\* type or none and no member of State, and flash records without a word
\* string
Malformed ==
    { [json |-> "invalid", data |-> <<>>],
      [json |-> "array", data |-> <<>>],
      Obj([type |-> JStr("ping")]),
      Obj([type |-> JNum(1)]),
      Obj(<<>>),
      Obj([type |-> JStr("flash")]),
      Obj([type |-> JStr("flash"), word |-> JNum(1)]) }

Messages == WellFormed \cup Malformed

\* main after the first dial succeeded
InitNet ==
    /\ BrainInit
    /\ CurrentState = ""
    /\ spawned = <<>>
    /\ obs = ObsInit
    /\ speech = {<<"USO">>}
    /\ ZeroGame
    /\ ZeroChans
    /\ barrage = <<>>
    /\ state = ZeroState
    /\ silenceStage = 0
    /\ mu = MuFree
    /\ conn = [ConnNil EXCEPT !.ptr = 1, !.dials = 1, !.live = {1}]
    /\ pc = [PcInit EXCEPT !.connect = "write",
                           !.readers = {[c |-> 1, at |-> "read", msg |-> NoMsg]}]
    /\ dice = {0}
    /\ seen = [SeenInit EXCEPT !.call = NoCall]

NextNet ==
    \/ frameCount < MaxFrames /\ UpdateLock
    \/ UpdateBody
    \/ \E r \in pc.readers, m \in Messages : ReadMessage(r, m)
    \/ \E r \in pc.readers : handleMessageDecode(r)
    \/ \E r \in pc.readers : handleMessageLock(r)
    \/ \E r \in pc.readers : handleMessageApply(r)

SpecNet == InitNet /\ [][NextNet]_vars

---------------------------------------------------------------------------
(* The connect goroutine, its readers and the audio callback that feeds    *)
(* the write loop; the server sends state records.                         *)

Broadcasts ==
    { Obj([state |-> JStr("ALIGNED"), tension |-> JNum(300), split_degree |-> JNum(30)]) }

\* main after game.connect()
InitConnect ==
    /\ BrainInit
    /\ CurrentState = ""
    /\ spawned = <<>>
    /\ obs = ObsInit
    /\ speech = {<<"USO">>}
    /\ ZeroGame
    /\ ZeroChans
    /\ barrage = <<>>
    /\ state = ZeroState
    /\ silenceStage = 0
    /\ mu = MuFree
    /\ conn = ConnNil
    /\ pc = [PcInit EXCEPT !.connect = "dial"]
    /\ dice = {0}
    /\ seen = [SeenInit EXCEPT !.call = NoCall]

NextConnect ==
    \/ DialFail
    \/ SleepRetry
    \/ DialOk
    \/ WriteDone
    \/ WriteText
    \/ CloseConn
    \/ SleepAfterClose
    \/ \E r \in pc.readers, m \in Broadcasts : ReadMessage(r, m)
    \/ \E r \in pc.readers : ReadError(r)
    \/ \E r \in pc.readers : handleMessageDecode(r)
    \/ \E r \in pc.readers : handleMessageLock(r)
    \/ \E r \in pc.readers : handleMessageApply(r)
    \/ CallbackData
    \/ CallbackSend

SpecConnect == InitConnect /\ [][NextConnect]_vars

\* The connect goroutine is scheduled again and again, and a select with a
\* case that stays ready takes that case in the end.
SpecConnectFair ==
    /\ SpecConnect
    /\ WF_vars(DialFail \/ DialOk)
    /\ WF_vars(SleepRetry)
    /\ WF_vars(WriteDone)
    /\ WF_vars(CloseConn)
    /\ WF_vars(SleepAfterClose)

---------------------------------------------------------------------------
(* Two Brains that hear the same utterances at the same times and are      *)
(* polled (GetState) at times of their own; PollBoth polls both at once.   *)

MaxSays == 4        \* SpecPoll: this many utterances are heard
MaxClock == 3       \* SpecPoll: this many clock units pass

\* one clock unit passes for both runs
PassPoll ==
    /\ seen.clock < MaxClock
    /\ SetBrain(Aged(Brain, 1))
    /\ seen' = [seen EXCEPT !.clock = @ + 1, !.twin = Aged(@, 1)]
    /\ ret' = Ret("Pass")
    /\ UNCHANGED <<speech, CurrentState, spawned, obs, gameVars, chanVars, netVars, dice>>

\* both runs hear text
SayPoll ==
    /\ seen.says < MaxSays
    /\ \E text \in speech :
           /\ SetBrain(ProcessText(Brain, text).b)
           /\ seen' = [seen EXCEPT !.says = @ + 1, !.twin = ProcessText(@, text).b]
    /\ ret' = Ret("ProcessText")
    /\ UNCHANGED <<speech, CurrentState, spawned, obs, gameVars, chanVars, netVars, dice>>

\* both runs are reset
ResetPoll ==
    /\ SetBrain(Reset(Brain))
    /\ seen' = [seen EXCEPT !.twin = Reset(@)]
    /\ ret' = Ret("Reset")
    /\ UNCHANGED <<speech, CurrentState, spawned, obs, gameVars, chanVars, netVars, dice>>

\* the first run is polled
PollFirst ==
    /\ SetBrain(GetState(Brain).b)
    /\ ret' = Ret("PollFirst")
    /\ UNCHANGED <<speech, CurrentState, spawned, obs, renderer>>

\* the second run is polled
PollSecond ==
    /\ seen' = [seen EXCEPT !.twin = GetState(@).b]
    /\ ret' = Ret("PollSecond")
    /\ UNCHANGED <<brainVars, speech, CurrentState, spawned, obs, gameVars, chanVars,
                   netVars, dice>>

\* both runs are polled: a common observation time
PollBoth ==
    /\ SetBrain(GetState(Brain).b)
    /\ seen' = [seen EXCEPT !.twin = GetState(@).b]
    /\ ret' = [Ret("PollBoth") EXCEPT !.state = GetState(Brain).state]
    /\ UNCHANGED <<speech, CurrentState, spawned, obs, gameVars, chanVars, netVars, dice>>

InitPoll == BrainInit /\ GameInit /\ speech = Utterances

NextPoll ==
    \/ PassPoll
    \/ SayPoll
    \/ ResetPoll
    \/ PollFirst
    \/ PollSecond
    \/ PollBoth

SpecPoll == InitPoll /\ [][NextPoll]_vars

---------------------------------------------------------------------------
(* updatePhysics applied, tick after tick and with no spawn in between, to *)
(* every shake accumulator up to MaxShake and to a flash just set or not.  *)

MaxShake == 5       \* SpecEffects: the shake accumulator starts at most at this many 1.0

InitEffects ==
    /\ BrainInit
    /\ CurrentState = ""
    /\ spawned = <<>>
    /\ obs = ObsInit
    /\ speech = Utterances
    /\ ZeroChans
    /\ ZeroNet
    /\ dice = {0}
    /\ barrage = <<>>
    /\ currentSpeaker = 0
    /\ lastWordTime = ZeroTime
    /\ micVolume = 0
    /\ frameCount = 0
    /\ bgColor = ColZero
    /\ targetBgColor = ColZero
    /\ shakeAmount \in 0..(100 * MaxShake)
    /\ flashIntensity \in {0, 100}
    /\ seen = [SeenInit EXCEPT !.call = [op |-> "effects", shake |-> shakeAmount,
                                         flash |-> flashIntensity]]

SpecEffects == InitEffects /\ [][updatePhysicsCall]_vars

\* the tick loop keeps running
SpecEffectsFair == SpecEffects /\ WF_vars(updatePhysicsCall)

---------------------------------------------------------------------------
(* The stage-4 silence word spawned by the standalone renderer in every    *)
(* Game of InitSpawn, and the ticks that move it afterwards.               *)

spawnAbyssCall ==
    /\ seen.call = NoCall
    /\ \E rnd \in Rnds :
           LET r == spawnWordFromConfig(Game, silence_abyss, rnd)
           IN  /\ SetGame(r.G)
               /\ seen' = [seen EXCEPT !.call =
                              [op |-> "spawnWordFromConfig", G |-> Game,
                               style |-> silence_abyss.Style, text |-> silence_abyss.Text,
                               cfg |-> silence_abyss, rnd |-> rnd,
                               bw |-> r.bw, word |-> r.word]]
    /\ UNCHANGED <<brainVars, ret, speech, CurrentState, spawned, obs, frameCount,
                   chanVars, netVars, dice>>

\* the ticks after the spawn
AbyssTick ==
    /\ seen.call # NoCall
    /\ seen.ticks < TickCap
    /\ updatePhysicsCall

NextAbyss == spawnAbyssCall \/ AbyssTick

SpecAbyss == InitSpawn /\ [][NextAbyss]_vars

---------------------------------------------------------------------------
(* updatePhysics applied, tick after tick and outside SPLIT, to displayed  *)
(* and target background colours whose channels are drawn from Shades.     *)

\* the channel values of SpecLerp
Shades == {0, 10, 128, 255}

InitLerp ==
    /\ BrainInit
    /\ CurrentState = ""
    /\ spawned = <<>>
    /\ obs = ObsInit
    /\ speech = Utterances
    /\ ZeroChans
    /\ ZeroNet
    /\ dice = {0}
    /\ barrage = <<>>
    /\ currentSpeaker = 0
    /\ lastWordTime = ZeroTime
    /\ micVolume = 0
    /\ frameCount = 0
    /\ shakeAmount = 0
    /\ flashIntensity = 0
    /\ bgColor \in {<<a, b, a, 255>> : a, b \in Shades}
    /\ targetBgColor \in {<<a, b, b, 255>> : a, b \in Shades}
    /\ seen = [SeenInit EXCEPT !.call = [op |-> "lerp", bg |-> bgColor]]

SpecLerp == InitLerp /\ [][updatePhysicsCall]_vars

\* the tick loop keeps running
SpecLerpFair == SpecLerp /\ WF_vars(updatePhysicsCall)

---------------------------------------------------------------------------
(* Claims *)

\* C1: after every call on the Brain (ProcessText, Recalculate, GetState,
\* CheckSilence, Reset, at clock times that never decrease) Tension is >= 0.
C1_TensionNonNegative == Tension >= 0

\* an utterance whose increment the decay since LastUpdate has used up
C1_Floored == ret.op = "ProcessText" /\ Tension = 0

\* C2: the state GetState returns is SPLIT exactly when the recalculated tension
\* is > 8.0, ALIGNED exactly when it is > 2.0 and <= 8.0, UNKNOWN exactly when
\* it is <= 2.0; so 8.0 itself is ALIGNED and 2.0 itself is UNKNOWN.
C2_Banding ==
    ret.op = "GetState" =>
        /\ ret.state \in {"SPLIT", "ALIGNED", "UNKNOWN"}
        /\ ret.state = "SPLIT" <=> Tension > 8 * One
        /\ ret.state = "ALIGNED" <=> (Tension > 2 * One /\ Tension <= 8 * One)
        /\ ret.state = "UNKNOWN" <=> Tension <= 2 * One

\* GetState answered at a tension of exactly 8.0
C2_AtEight == ret.op = "GetState" /\ Tension = 8 * One /\ ret.state = "ALIGNED"

C3_inc(text) ==
    IF \E k \in DOMAIN DangerWords : Contains(text, DangerWords[k])
    THEN 3 * One ELSE One \div 5

C3_max0(x) == IF x > 0 THEN x ELSE 0

\* C3: ProcessText(text), called when LastUpdate is dt old with tension T, leaves
\* Tension = max(0, T + inc - 0.5 * dt) and LastUpdate = now, inc being 3.0 when
\* text contains a danger word and 0.2 when it does not.
C3_ProcessTextTension ==
    [][\A text \in speech :
          ProcessTextOf(text) =>
              /\ Tension' = C3_max0(Tension + C3_inc(text) - (LastUpdate * One) \div (2 * Sec))
              /\ LastUpdate' = 0]_vars

\* a danger word said 2 s after the last update of a tension of 0: 3.0 - 1.0
C3_AddedThenDecayed ==
    /\ ret.op = "ProcessText"
    /\ ret.cfg.Text = <<"USO">>
    /\ LastUpdate = 0
    /\ Tension = 2 * One

\* C4: whenever the utterance given to ProcessText contains a configured danger
\* word, the config returned has Style impact, Flash true, Shake 20.0, Scale 2.5
\* and Color red.
C4_DangerWordIsImpact ==
    (/\ ret.op = "ProcessText"
     /\ \E k \in DOMAIN DangerWords : Contains(ret.cfg.Text, DangerWords[k]))
    => /\ ret.cfg.Style = "impact"
       /\ ret.cfg.Flash = TRUE
       /\ ret.cfg.Shake = 200
       /\ ret.cfg.Scale = 25
       /\ ret.cfg.Color = "red"

\* C5: SilenceStage is always in 0..4, no CheckSilence call decreases it, and
\* every ProcessText call leaves SilenceStage = 0 and LastSpeechTime = now.
C5_StageRangeMonotoneReset ==
    /\ SilenceStage \in 0..4
    /\ [][/\ SilenceStage' \in 0..4
          /\ CheckSilenceCall => SilenceStage' >= SilenceStage
          /\ ProcessTextCall => (SilenceStage' = 0 /\ LastSpeechTime' = 0)]_vars

\* CheckSilence has just looped at stage 4
C5_LoopedAtFour ==
    /\ ret.op = "CheckSilence"
    /\ ret.ok
    /\ ret.cfg.Style = "silence_dots"
    /\ SilenceStage = 4

\* C7: one CheckSilence call raises SilenceStage by at most 1 and returns at
\* most one config, however many thresholds the silence has passed; a call that
\* returns ok = false changes neither SilenceStage nor LastSpeechTime and
\* returns the empty word and the zero config.
C7_OneStagePerCall ==
    [][CheckSilenceCall =>
          /\ SilenceStage' \in {SilenceStage, SilenceStage + 1}
          /\ ret'.ok => ret'.cfg.Text = ret'.word /\ ret'.cfg.Style # ""
          /\ ~ret'.ok => /\ SilenceStage' = SilenceStage
                         /\ LastSpeechTime' = LastSpeechTime
                         /\ ret'.word = <<>>
                         /\ ret'.cfg = ZeroWordConfig]_vars

\* the first poll comes 13 s or more after the last speech and enters stage 1 only
C7_FirstPollAfterThirteen ==
    /\ ret.op = "CheckSilence"
    /\ ret.ok
    /\ SilenceStage = 1
    /\ LastSpeechTime >= Seconds(13)

\* the stage due after d clock units of silence polled on every tick, and the
\* emissions that lead to stage n: stage i is entered at the first poll later
\* than 2 s, 5 s, 8 s, 12 s
C6_due(d) == Cardinality({k \in {2, 5, 8, 12} : d > Seconds(k)})

C6_entries(n) == SubSeq(<< <<1, Seconds(2) + 1>>, <<2, Seconds(5) + 1>>,
                           <<3, Seconds(8) + 1>>, <<4, Seconds(12) + 1>> >>, 1, n)

\* C6: with CheckSilence polled on every tick, during the first 13.0 s without an
\* utterance the stages 1, 2, 3, 4 are entered in that order, each at the first
\* poll at which the silence exceeds 2 s, 5 s, 8 s, 12 s, and at 13.0 s the
\* stage is 4.
C6_StagesOfThirteenSeconds ==
    obs.quiet <= Seconds(13) =>
        /\ SilenceStage = C6_due(obs.quiet)
        /\ obs.emitted = C6_entries(SilenceStage)
        /\ obs.quiet = Seconds(13) => SilenceStage = 4

\* the 13.0 s mark of a silence
C6_AtThirteen == obs.quiet = Seconds(13) /\ Len(obs.emitted) = 4 /\ LastSpeechTime = Seconds(13)

\* C8 as stated: consecutive stage-4 loop emissions are exactly 5.0 s apart.
C8_LoopEveryFiveSeconds == obs.loops >= 2 => obs.gap = Seconds(5)

\* C8 as amended: once SilenceStage is 4, with CheckSilence polled on every tick
\* and no utterance, SilenceStage stays 4 and a silence_dots config is emitted
\* again and again: first at the first poll at which the silence exceeds 17 s
\* (5.0 s after the poll that entered stage 4), and then each time at the first
\* poll later than 5.0 s after the previous loop emission, that is 5.0 s and one
\* tick after it.
C8_LoopForever ==
    /\ [](obs.loops >= 1 => obs.firstLoop = Seconds(17) + 1)
    /\ [](obs.loops = 1 => obs.gap = Seconds(5))
    /\ [](obs.loops >= 2 => obs.gap = Seconds(5) + 1)
    /\ [](\A i \in 1..Len(spawned) :
             (SilenceStage = 4 /\ spawned[i].Style = "silence_dots") =>
                 (obs.loops >= 1 /\ obs.sinceEmit = 0 /\ spawned[i] = silence_dots(10)))
    /\ [][(SilenceStage = 4 /\ ~obs'.said) => SilenceStage' = 4]_vars
    /\ (SilenceStage = 4) ~>
           (obs.said \/ (/\ obs.loops >= 1
                         /\ obs.sinceEmit = 0
                         /\ spawned = <<silence_dots(10)>>))

\* the second loop emission of a silence
C8_SecondLoop ==
    /\ obs.loops = 2
    /\ obs.sinceEmit = 0
    /\ SilenceStage = 4
    /\ spawned = <<silence_dots(10)>>

\* C9 as stated: 9.0 s after an utterance, polled on every tick, stages 1 and 2
\* have been emitted and stage 3 has not.
C9_HeavyNotYetAtNine ==
    obs.quiet = Seconds(9) =>
        /\ \E i \in 1..Len(obs.emitted) : obs.emitted[i][1] = 1
        /\ \E i \in 1..Len(obs.emitted) : obs.emitted[i][1] = 2
        /\ \A i \in 1..Len(obs.emitted) : obs.emitted[i][1] # 3

\* C9 as amended: 9.0 s after an utterance, polled on every tick and timed from
\* LastSpeechTime, stages 1, 2 and 3 have been emitted (stage 3 at the first poll
\* later than 8.0 s) and stage 4 has not.
C9_HeavyEmittedAtNine ==
    obs.quiet = Seconds(9) =>
        /\ [i \in 1..Len(obs.emitted) |-> obs.emitted[i][1]] = <<1, 2, 3>>
        /\ obs.emitted[3][2] = Seconds(8) + 1
        /\ SilenceStage = 3
        /\ LastSpeechTime = Seconds(9)

\* 9.0 s after an utterance whose tension has not yet decayed away
C9_NineAfterUtterance == obs.quiet = Seconds(9) /\ Tension > 0 /\ SilenceStage = 3

\* whether the keywords of rule i occur in text: 1 impact, 2 invert_v,
\* 3 invert_h, 4 invert_c, 5 conjunction, 6 hesitation
C10_matches(text, i) ==
    LET has(w) == Contains(text, w)
        any(ws) == \E k \in DOMAIN ws : has(ws[k])
    IN  CASE i = 1 -> any(impactWords)
          [] i = 2 -> (has(JOUGE) \/ has(TENJOU) \/ has(SAKASAMA)) /\ (has(HANTEN) \/ has(GYAKU))
          [] i = 3 -> (has(SAYUU) \/ has(KAGAMI)) /\ (has(HANTEN) \/ has(GYAKU))
          [] i = 4 -> (has(IRO) \/ has(KARAA)) /\ (has(HANTEN) \/ has(CHIGAU))
          [] i = 5 -> any(conjunctions)
          [] i = 6 -> any(hesitations)

C10_style ==
    <<"impact", "invert_v", "invert_h", "invert_c", "conjunction", "hesitation">>

C11_LifeCountsTicks ==
    /\ LET alive == SelectSeq(seen.born, LAMBDA b : b.MaxLife > seen.ticks)
       IN  /\ Len(barrage) = Len(alive)
           /\ \A i \in DOMAIN barrage :
                  /\ barrage[i].MaxLife = alive[i].MaxLife
                  /\ barrage[i].Life = alive[i].MaxLife - seen.ticks
                  /\ barrage[i].Life > 0
    /\ [][updatePhysicsCall =>
            LET kept == SelectSeq(barrage, LAMBDA b : b.Life # 1)
            IN  /\ Len(barrage') = Len(kept)
                /\ \A i \in DOMAIN kept : barrage'[i].Life = kept[i].Life - 1]_vars

\* a word that came to rest and lost a tick of life while resting, after another
\* word has left the barrage
C11_AgedWhileResting ==
    /\ Len(barrage) < Len(seen.born)
    /\ \E i \in DOMAIN barrage :
           barrage[i].IsResting /\ barrage[i].Life = barrage[i].MaxLife - 2

\* the word of the barrage that was the i-th word one tick after the observation
\* began, i being a word with more than one tick of life
C12_after(i) == barrage[i - Cardinality({k \in 1..(i - 1) : seen.born[k].Life = 1})]

C12_atFloorFalling(b) == ~b.IsResting /\ b.Y = 98000 /\ b.VY = 500 /\ b.Life > 1

\* C12 as stated: one tick leaves a word that was on the floor line with vy = 5.0
\* with vy = -3.0 and y on the floor line; a bounce whose reflected |vy| is
\* below 1.0 leaves the word resting with vy = 0.
C12_ReboundsToMinusThree ==
    seen.ticks = 1 =>
        \A i \in DOMAIN seen.born :
            LET b == seen.born[i]
                v == b.VY + (IF b.IsFiller THEN 5 ELSE 25)
            IN  /\ C12_atFloorFalling(b) =>
                       (C12_after(i).VY = -300 /\ C12_after(i).Y = 98000)
                /\ (b.Life > 1 /\ ~b.IsResting /\ b.Y + v > 98000
                        /\ 6 * v < 1000 /\ 6 * v > -1000) =>
                       (C12_after(i).IsResting /\ C12_after(i).VY = 0)

\* C12 as amended: the tick adds the gravity first (0.25, or 0.05 for a filler),
\* so a word that was on the floor line with vy = 5.0 is left on the floor line
\* with vy = -0.6 * 5.25 = -3.15 (a filler: -0.6 * 5.05 = -3.03); whenever the
\* step takes a word below the floor line the word is left on the floor line,
\* resting with vy = 0 when 0.6 times the vy after gravity is below 1.0, and
\* not resting with vy = -0.6 times it otherwise.
C12_ReboundAfterGravity ==
    seen.ticks = 1 =>
        \A i \in DOMAIN seen.born :
            LET b == seen.born[i]
                v == b.VY + (IF b.IsFiller THEN 5 ELSE 25)
            IN  /\ C12_atFloorFalling(b) =>
                       /\ C12_after(i).VY = (IF b.IsFiller THEN -303 ELSE -315)
                       /\ C12_after(i).Y = 98000
                       /\ ~C12_after(i).IsResting
                /\ (b.Life > 1 /\ ~b.IsResting /\ b.Y + v > 98000) =>
                       /\ C12_after(i).Y = 98000
                       /\ IF 6 * v < 1000 /\ 6 * v > -1000
                          THEN C12_after(i).IsResting /\ C12_after(i).VY = 0
                          ELSE /\ ~C12_after(i).IsResting
                               /\ 10 * C12_after(i).VY + 6 * v \in -9..9

\* a tick that bounced one word off the floor at 5.25 and brought another to rest
C12_BouncedAndRested ==
    /\ seen.ticks = 1
    /\ \E i \in DOMAIN seen.born :
           /\ C12_atFloorFalling(seen.born[i])
           /\ ~seen.born[i].IsFiller
           /\ C12_after(i).VY = -315
    /\ \E i \in DOMAIN barrage : barrage[i].IsResting /\ barrage[i].VY = 0

C13_silence(style) ==
    style \in {"silence_dots", "silence_ma", "silence_heavy", "silence_abyss"}

\* C13: a spawn whose style does not start with silence_ flips the speaker side
\* exactly when more than 2.0 s have passed since the recorded word time or the
\* style is conjunction, and sets the word time to now; a spawn with a silence_
\* style changes neither the side nor the word time.
C13_TurnTaking ==
    seen.call.op # "none" =>
        LET before == seen.call.G
            flips == before.lastWordTime > 2 * Sec \/ seen.call.style = "conjunction"
        IN  IF C13_silence(seen.call.style)
            THEN /\ currentSpeaker = before.currentSpeaker
                 /\ lastWordTime = before.lastWordTime
            ELSE /\ currentSpeaker = (IF flips THEN 1 - before.currentSpeaker
                                      ELSE before.currentSpeaker)
                 /\ lastWordTime = 0

\* a conjunction said exactly 2.0 s after the last word has flipped the side
C13_ConjunctionFlipped ==
    /\ seen.call.op = "spawnWordFromConfig"
    /\ seen.call.style = "conjunction"
    /\ seen.call.G.lastWordTime = 2 * Sec
    /\ currentSpeaker # seen.call.G.currentSpeaker
    /\ lastWordTime = 0

\* C14: a word spawned while the state is SPLIT, or with style glitch, is red
\* whatever colour the style and the config's tag gave it, and both its velocity
\* components are twice those of the word built after all config overrides; in
\* every other case the word appended is the word built.
C14_ForcedOverride ==
    seen.call.op # "none" =>
        LET bw == seen.call.bw
            word == seen.call.word
        IN  /\ barrage = <<word>>
            /\ IF seen.call.G.CurrentState = "SPLIT" \/ seen.call.style = "glitch"
               THEN /\ word.Color = <<198, 40, 40, 255>>
                    /\ word.VX = 2 * bw.VX
                    /\ word.VY = 2 * bw.VY
                    /\ [word EXCEPT !.Color = 0, !.VX = 0, !.VY = 0]
                           = [bw EXCEPT !.Color = 0, !.VX = 0, !.VY = 0]
               ELSE word = bw

\* the heavy-silence word spawned in SPLIT: red for its dark grey, falling at 30
C14_SilenceWordInSplit ==
    /\ seen.call.op = "spawnWordFromConfig"
    /\ seen.call.style = "silence_heavy"
    /\ seen.call.G.CurrentState = "SPLIT"
    /\ seen.call.bw.Color = <<50, 50, 50, 255>>
    /\ seen.call.bw.VY = 1500
    /\ barrage[1].Color = <<198, 40, 40, 255>>
    /\ barrage[1].VY = 3000

\* C17: Game.Update never waits for its queues: whatever VolChan and TextChan
\* hold, both empty included, the tick can run; it takes the oldest volume sample
\* if there is one and no more, the oldest utterance if there is one and no
\* more, and with no sample queued it multiplies micVolume by 0.95.
C17_UpdateNeverBlocks ==
    /\ ~UpdateWaits
    /\ [][/\ ~UpdateWaits'
          /\ UpdateTick =>
                /\ VolChan' = (IF VolChan = <<>> THEN <<>> ELSE Tail(VolChan))
                /\ TextChan' = (IF TextChan = <<>> THEN <<>> ELSE Tail(TextChan))
                /\ VolChan = <<>> => micVolume' = (95 * micVolume) \div 100]_vars

\* the third tick found both queues empty and decayed a volume that an earlier
\* tick had raised
C17_TickOnEmptyQueues ==
    /\ seen.call.op = "Update"
    /\ seen.call.vols = 0
    /\ seen.call.texts = 0
    /\ micVolume > 0
    /\ frameCount = 3

\* C18: the audio callback never waits when it publishes: whatever VolChan and
\* TextChan hold, both full included, publishing the volume sample and
\* publishing the recognised text can go ahead at once.
C18_CallbackNeverBlocks ==
    /\ cb.pc = "idle" => ENABLED CallbackData
    /\ cb.pc = "send" => ENABLED CallbackSend

\* C15: handling a reset command leaves the tension at 0, the silence stage at
\* 0, the speaker side at its initial value and the barrage empty.  (The
\* renderer receives a reset as the state record the server broadcasts after
\* it; its tension is the record's split_degree.)
C15_ResetClearsAll ==
    [][\A r \in pc.readers :
           handleMessageApply(r) /\ r.msg = ResetBroadcast =>
               /\ state'.SplitDegree = 0
               /\ silenceStage' = 0
               /\ currentSpeaker' = 0
               /\ barrage' = <<>>]_vars

C16_malformed(msg) == msg \in Malformed

\* C16: handleMessage, in each of its steps, leaves g.state, the barrage, the
\* speaker side and the shake and flash accumulators as they are when the
\* message is not a well-formed spawn_word, flash or state record.
C16_MalformedChangesNothing ==
    [][\A r \in pc.readers :
           /\ C16_malformed(r.msg)
           /\ \/ handleMessageDecode(r)
              \/ handleMessageLock(r)
              \/ handleMessageApply(r)
           => UNCHANGED <<state, barrage, currentSpeaker, shakeAmount,
                          flashIntensity>>]_vars

C19_inBody == {r \in pc.readers : r.at = "apply"}

\* C19: the body of Game.Update and the part of handleMessage after its Lock
\* never run at the same time; g.mu is held by exactly the goroutine that is in
\* its locked part, so no goroutine that holds g.mu is at a g.mu.Lock().
C19_MutualExclusion ==
    /\ ~(pc.tick = "body" /\ C19_inBody # {})
    /\ Cardinality(C19_inBody) <= 1
    /\ pc.tick = "body" <=> mu.holder = "tick"
    /\ \A r \in pc.readers :
           r.at = "apply" <=> mu = [holder |-> "reader", c |-> r.c]
    /\ mu.holder = "reader" => \E r \in pc.readers : r.c = mu.c

\* the reader has a spawn_word to apply and waits at its Lock while the tick
\* is in its body
C19_ReaderWaitsForTick ==
    /\ pc.tick = "body"
    /\ \E r \in pc.readers : r.at = "lock" /\ StringOf(r.msg.data, "type") = "spawn_word"

\* C20: the connect loop dials again after every failed dial and after every
\* disconnect, be it a read error or a write error, each time after a pause of
\* one second and without a bound on the attempts; at most one connection is
\* open and at most one reader goroutine is live at any time.
C20_ReconnectLoop ==
    /\ [](Cardinality(conn.live) <= 1 /\ Cardinality(pc.readers) <= 1)
    /\ [][pc'.connect = "dial" /\ pc.connect # "dial" =>
             pc.connect \in {"retry", "sleep"} /\ pc'.pause = Seconds(1)]_vars
    /\ (pc.connect = "retry") ~> (pc.connect = "dial")
    /\ (conn.ptr # 0 /\ conn.ptr \in conn.done) ~> (pc.connect = "dial")
    /\ (pc.connect = "close") ~> (pc.connect = "dial")

\* C21: two runs that hear the same utterances at the same times report the
\* same tension whenever both are polled at the same time, however differently
\* they were polled before.
C21_PollingIndependent == ret.op = "PollBoth" => Tension = seen.twin.Tension

\* C28: the tension stays within 0.0 to 10.0 after any sequence of ProcessText,
\* GetState and Reset calls.
C28_TensionWithinTen == Tension >= 0 /\ Tension <= 10 * One

\* C22: after every tick the shake accumulator is 0 or at least 0.5 and the
\* flash accumulator is 0.85 times what it was (to the hundredth), with no
\* snap; with no shake-bearing spawn the shake accumulator reaches 0 after
\* finitely many ticks and stays 0.
C22_EffectsDecay ==
    /\ [][updatePhysicsCall =>
            /\ shakeAmount' = 0 \/ shakeAmount' >= 50
            /\ flashIntensity' = (85 * flashIntensity) \div 100]_vars
    /\ <>[](shakeAmount = 0)

\* a shake of 0.55 was snapped to 0 by the first tick, which left the flash at
\* 0.85
C22_SnappedAtFirstTick ==
    /\ seen.call.op = "effects"
    /\ seen.call.shake = 55
    /\ seen.call.flash = 100
    /\ seen.ticks = 1
    /\ shakeAmount = 0
    /\ flashIntensity = 85

\* C23: a config with both an absolute vertical velocity and a multiplier is
\* spawned with vy (the literal's, before the SPLIT/glitch doubling) equal to
\* the absolute velocity times the multiplier; with a multiplier only, with
\* the style's base vy times the multiplier, so that an invert_v word is
\* thrown downward with vy between 5 and 10.  Both renderers.
C23_VyOverrides ==
    /\ seen.call.op = "spawnWordFromConfig" =>
           LET c == seen.call.cfg
               base == BaseWord(seen.call.G, c.Style, c.Style \in {"glitch", "impact"},
                                seen.call.rnd).vy
           IN  /\ c.VY # 0 /\ c.VYMult # 10 => 10 * seen.call.bw.VY = 10 * c.VY * c.VYMult
               /\ c.VY = 0 /\ c.VYMult # 10 => 10 * seen.call.bw.VY = base * c.VYMult
               /\ c.Style = "invert_v" => seen.call.bw.VY \in 500..1000
    /\ seen.call.op = "spawnWordInternal" =>
           LET c == seen.call.config
               base == BaseWord(seen.call.G, seen.call.style, seen.call.style = "glitch",
                                seen.call.rnd).vy
               abs == Has(c, "vy", "number")
               mult == Has(c, "vy_mult", "number")
           IN  /\ abs /\ mult => 100 * seen.call.bw.VY = c["vy"].v * c["vy_mult"].v
               /\ ~abs /\ mult => 100 * seen.call.bw.VY = base * c["vy_mult"].v
               /\ seen.call.style = "invert_v" /\ mult /\ c["vy_mult"].v = -100
                      => seen.call.bw.VY \in 500..1000

\* the standalone renderer spawned a config with absolute velocity 15.0 and
\* multiplier -0.5 at vy = -7.5 outside SPLIT
C23_BothApplied ==
    /\ seen.call.op = "spawnWordFromConfig"
    /\ seen.call.cfg.VY = 150
    /\ seen.call.cfg.VYMult = -5
    /\ seen.call.G.CurrentState # "SPLIT"
    /\ seen.call.bw.VY = -750
    /\ barrage[Len(barrage)].VY = -750

\* C24: each silence word of the escalator is spawned with the scale of its
\* config: 0.8 for the stage-1 dots, 1.0 for the stage-2 interval glyph, 1.5
\* for the stage-3 and 2.0 for the stage-4 glyph.
C24_SilenceScale ==
    seen.call.op = "spawnWordFromConfig"
    /\ seen.call.cfg \in {silence_dots(8), silence_ma, silence_heavy, silence_abyss}
    => /\ seen.call.word.Scale = 10 * seen.call.cfg.Scale
       /\ seen.call.word.Scale =
              CASE seen.call.style = "silence_dots" -> 80
                [] seen.call.style = "silence_ma" -> 100
                [] seen.call.style = "silence_heavy" -> 150
                [] seen.call.style = "silence_abyss" -> 200

\* C25: a silence_abyss word spawned outside SPLIT (below the bottom edge, vy
\* = -1) rises: the first tick leaves it not resting and less than 1.0 above
\* where it was spawned, and every tick that leaves its vy negative moves it up.
C25_AbyssRises ==
    [][/\ AbyssTick
       /\ seen.call.style = "silence_abyss"
       /\ seen.call.G.CurrentState # "SPLIT"
       => /\ seen.ticks = 0 =>
                 /\ ~barrage'[1].IsResting
                 /\ barrage'[1].Y < seen.call.word.Y
                 /\ seen.call.word.Y - barrage'[1].Y < 100
          /\ barrage'[1].VY < 0 => barrage'[1].Y < barrage[1].Y]_vars

\* C26: a spawn of a silence_ word leaves the target background colour as it
\* was; outside SPLIT a spawn changes the target only for a word that is not
\* a silence, impact or glitch word, to the grey of a conjunction or else to
\* the colour hashed from the text.  (Either renderer; the target at the end
\* of a tick in SPLIT is a matter of updatePhysics.)
C26_TargetBackground ==
    seen.call.op \in {"spawnWordFromConfig", "spawnWordInternal"} =>
        LET G == seen.call.G
            style == seen.call.style
        IN  /\ HasPrefixSilence(style) => targetBgColor = G.targetBgColor
            /\ G.CurrentState # "SPLIT" /\ targetBgColor # G.targetBgColor =>
                   /\ ~HasPrefixSilence(style)
                   /\ style \notin {"impact", "glitch"}
                   /\ targetBgColor = IF style = "conjunction" THEN <<50, 50, 50, 255>>
                                      ELSE textToColor(seen.call.text)

\* C27: with the target background colour fixed, every tick moves each
\* channel of the displayed colour toward the target's without passing it,
\* and after finitely many ticks the displayed colour is the target, for
\* every start and every target.
C27_ReachesTarget ==
    /\ [][updatePhysicsCall =>
            \A i \in 1..3 :
                /\ bgColor[i] < targetBgColor[i] =>
                       bgColor[i] < bgColor'[i] /\ bgColor'[i] <= targetBgColor[i]
                /\ bgColor[i] > targetBgColor[i] =>
                       bgColor[i] > bgColor'[i] /\ bgColor'[i] >= targetBgColor[i]
                /\ bgColor[i] = targetBgColor[i] => bgColor'[i] = bgColor[i]]_vars
    /\ <>[](bgColor = targetBgColor)

\* C29: with every sample in 0.0..1.0, the smoothed micVolume of the tick
\* loop stays within 0.0..1.0, whichever ticks find a sample queued.
C29_MicVolumeWithinOne ==
    (\A s \in Samples : 0 <= s /\ s <= 100) => 0 <= micVolume /\ micVolume <= 100

\* C30: in the network renderer every spawn of a non-silence word (a
\* spawn_word message whose style is no silence_ style, or a flash message
\* with its word) leaves silenceStage at 0, so that the stages are emitted
\* again in the next silence.
C30_SpawnResetsStage ==
    [][\A r \in pc.readers :
           /\ handleMessageApply(r)
           /\ \/ /\ StringOf(r.msg.data, "type") = "spawn_word"
                 /\ ~HasPrefixSilence(StringOf(r.msg.data, "style"))
              \/ /\ StringOf(r.msg.data, "type") = "flash"
                 /\ Has(r.msg.data, "word", "string")
           => silenceStage' = 0]_vars

\* C31: in a tick that consumes an utterance, the utterance's word is spawned
\* as SPLIT (used, what spawnWordFromConfig reads in g.state.CurrentState)
\* exactly if the banding of the tension after ProcessText of that utterance
\* (band) is SPLIT: the utterance that takes the tension above 8.0 is itself
\* spawned as SPLIT.
C31_SpawnedInOwnState ==
    seen.call.op = "Update" /\ seen.call.texts > 0 =>
        (seen.call.used = "SPLIT" <=> seen.call.band = "SPLIT")

\* the bands of GetState from the lowest up
C32_rank(st) == CASE st = "SPLIT" -> 2 [] st = "ALIGNED" -> 1 [] OTHER -> 0

\* C32: from one GetState of the tick loop to the next, with no utterance
\* processed in between, the reported state never moves up along UNKNOWN,
\* ALIGNED, SPLIT; and if from some tick on no utterance is processed, the
\* reported state is eventually UNKNOWN for good.
C32_StateOnlyFalls ==
    /\ [][~obs'.said /\ CurrentState # "" =>
              C32_rank(CurrentState') <= C32_rank(CurrentState)]_vars
    /\ []<><<obs'.said>>_vars \/ <>[](CurrentState = "UNKNOWN")

\* UNKNOWN reported in a silence whose last utterance was reported SPLIT
C32_FallenFromSplit ==
    /\ CurrentState = "UNKNOWN"
    /\ ~obs.said
    /\ obs.quiet < QuietCap
    /\ Tension > 0
    /\ Tension + Decay(obs.quiet) > SplitAbove

\* C33: an utterance processed when the GetState before it returned UNKNOWN
\* leaves the next GetState at UNKNOWN or ALIGNED, never at SPLIT.
C33_NoJumpToSplit ==
    obs.said /\ obs.was = "UNKNOWN" => CurrentState \in {"UNKNOWN", "ALIGNED"}

\* a danger word heard in UNKNOWN at a tension of more than 1.5, which it took
\* above 4.5
C33_DangerWordInUnknown ==
    /\ obs.said
    /\ obs.was = "UNKNOWN"
    /\ CurrentState = "ALIGNED"
    /\ 2 * Tension > 9 * One

\* C34: a tick of the standalone renderer hands at most one config to
\* spawnWordFromConfig, which appends one particle: in a tick that consumes an
\* utterance CheckSilence emits nothing and the one config is the utterance's,
\* and in a tick without an utterance at most one silence word is spawned.
C34_OneParticlePerTick ==
    /\ Len(spawned) <= 1
    /\ obs.said => Len(spawned) = 1 /\ ~HasPrefixSilence(spawned[1].Style)
    /\ ~obs.said => \A i \in DOMAIN spawned : HasPrefixSilence(spawned[i].Style)

\* a tick that consumed an utterance and spawned its word only
C34_UtteranceTick ==
    /\ obs.said
    /\ Len(spawned) = 1
    /\ spawned[1] = AnalyzeSemantics(<<"USO">>)
    /\ LastSpeechTime = 0
    /\ SilenceStage = 0

\* where the i-th word of the barrage, a word with more than one tick of life,
\* is in the barrage after the tick
C35_pos(i) == Cardinality({k \in 1..i : barrage[k].Life > 1})

\* C35: a tick leaves a resting word resting and changes nothing of it but its
\* Life (x, y, vx, vy, rotation and angular velocity stay); a word that was not
\* resting is resting after a tick only if that tick's step took it below the
\* floor line and put it on the line.
C35_RestingAbsorbing ==
    [][updatePhysicsCall =>
          \A i \in DOMAIN barrage :
              barrage[i].Life > 1 =>
                  LET b == barrage[i]
                      a == barrage'[C35_pos(i)]
                  IN  /\ b.IsResting => a = [b EXCEPT !.Life = @ - 1]
                      /\ ~b.IsResting /\ a.IsResting =>
                             /\ a.Y = floorY
                             /\ b.Y + b.VY + (IF b.IsFiller THEN 5 ELSE 25) > floorY]_vars

\* a word that came to rest on the floor line in the first tick and was still
\* there, with its rotation, after the second
C35_StillResting ==
    /\ seen.ticks = 2
    /\ \E i \in DOMAIN barrage, k \in DOMAIN seen.born :
           /\ barrage[i].IsResting
           /\ ~seen.born[k].IsResting
           /\ barrage[i].Life = seen.born[k].Life - 2
           /\ barrage[i].Y = floorY
           /\ barrage[i].VY = 0
           /\ barrage[i].X = seen.born[k].X + seen.born[k].VX
           /\ barrage[i].Rotation = seen.born[k].Rotation + seen.born[k].VRotation

C37_BothCuesInvertColour ==
    \A cue \in {HANTEN, CHIGAU} :
        \E text \in Texts :
            /\ Contains(text, IRO) \/ Contains(text, KARAA)
            /\ Contains(text, cue)
            /\ ProcessText(Brain, text).cfg.Style = "invert_c"

\* C38: while the network renderer has no connection (g.conn is nil), however
\* many utterances were recognised since it was lost, the audio callback is
\* never held up: an idle callback can run and publish its volume sample, and a
\* callback at its send on TextChan can complete it.
C38_CallbackCompletesOffline ==
    conn.ptr = 0 =>
        /\ cb.pc = "idle" => ENABLED CallbackData
        /\ cb.pc = "send" => ENABLED CallbackSend
====
